---- MODULE Spec2Model ----
(***************************************************************************)
(* Model of the local statistical analysis engine of DataLense             *)
(* (src/src/services/dataAnalysisService.ts).                              *)
(*                                                                         *)
(* A dataset is a sequence of rows; a row is an ordered sequence of        *)
(* [k, v] entries (an object with its keys in insertion order); a cell is  *)
(* a JavaScript number or a string, the latter a sequence of one-character *)
(* strings so that parseFloat can be modelled by what it does.             *)
(*                                                                         *)
(* Numbers are integers here.  Quantities the code computes by division    *)
(* (mean, median, bounds, percentages) are kept as exact fractions         *)
(* [num, den] and compared by cross-multiplication; stdDev is kept by its  *)
(* square.  The binary64 rounding of sum, mean and value - mean is         *)
(* modelled bit by bit in the Float section, for decimal inputs, and that  *)
(* of the correlation coefficient in the Float section of                  *)
(* findCorrelations: the coefficient analyzeData reports is kept exact,    *)
(* the one findCorrelations is checked on is the rounded one.              *)
(*                                                                         *)
(* The remote insight generator (src/src/services/geminiService.ts) and    *)
(* the caller of the engine (src/src/App.tsx) are modelled at the end.     *)
(***************************************************************************)
EXTENDS Integers, Sequences, FiniteSets, TLC

VARIABLES data, key, pc, outcome, stats, after,
          corrs, trend, pattern, missingCounts, net, app

\* what the helpers called on their own return
helperVars == <<corrs, trend, pattern, missingCounts>>

vars == <<data, key, pc, outcome, stats, after, helperVars, net, app>>

(***************************************************************************)
(* Bounds of the model                                                     *)
(***************************************************************************)
\* longest cycle part of a dataset handed to analyzeData
MaxRows == 9
\* longest repeating block of rows of such a dataset
MaxBase == 2
\* longest column handed to calculateStats alone
MaxLen == 5
\* largest number in those columns
MaxVal == 3
\* longest column made of three runs of equal values
MaxRunLen == 9
\* longest column of decimal strings
MaxFloatLen == 3
\* most rows of a dataset handed to findCorrelations alone
MaxCorrRows == 3
\* most rows of a dataset handed to findMissingData alone
MaxMissingRows == 3
\* most rows of a column handed to calculateStats, detectTrends and
\* detectSeasonality in turn
MaxSeriesRows == 11
\* most rows of a column handed to detectTrends with every filling
MaxTrendRows == 6
\* most rows of a dataset whose column y is twice its growing column x
MaxScenarioRows == 10

(***************************************************************************)
(* Cells and rows                                                          *)
(***************************************************************************)
Num(n) == [t |-> "number", n |-> n, s |-> <<>>]
Str(s) == [t |-> "string", n |-> 0, s |-> s]
\* item[col] of a row that has no such key
Undefined == [t |-> "undefined", n |-> 0, s |-> <<>>]
\* a null cell (JSON input)
Null == [t |-> "null", n |-> 0, s |-> <<>>]

Entry(k, v) == [k |-> k, v |-> v]

\* Object.keys(row)
Keys(row) == [i \in 1..Len(row) |-> row[i].k]

\* row[col]
Get(row, col) ==
  IF \E i \in 1..Len(row) : row[i].k = col
  THEN row[CHOOSE i \in 1..Len(row) : row[i].k = col].v
  ELSE Undefined

(***************************************************************************)
(* parseFloat and the coercion used by every helper                        *)
(***************************************************************************)
Digits == <<"0", "1", "2", "3", "4", "5", "6", "7", "8", "9">>
IsDigit(c) == \E i \in 1..10 : Digits[i] = c
DigitVal(c) == (CHOOSE i \in 1..10 : Digits[i] = c) - 1
IsSpace(c) == c = " "

\* the characters strings are made of in this model: digits, sign, decimal
\* point, white space and a letter
Chars == {"0", "1", "2", "3", "4", "5", "6", "7", "8", "9",
          "-", "+", ".", " ", "a"}

\* a parsed number: n is the signed integer part, frac the digits read after
\* a decimal point (empty when there is none)
NaN == [nan |-> TRUE, neg |-> FALSE, n |-> 0, frac |-> <<>>]
Number(n) == [nan |-> FALSE, neg |-> n < 0, n |-> n, frac |-> <<>>]

RECURSIVE SkipSpaces(_)
SkipSpaces(s) ==
  IF s # <<>> /\ IsSpace(Head(s)) THEN SkipSpaces(Tail(s)) ELSE s

\* value of the longest prefix of digits of s, continuing from acc
RECURSIVE DigitPrefix(_, _)
DigitPrefix(s, acc) ==
  IF s # <<>> /\ IsDigit(Head(s))
  THEN DigitPrefix(Tail(s), 10 * acc + DigitVal(Head(s)))
  ELSE acc

RECURSIVE DigitRun(_)
\* the longest prefix of digits of s
DigitRun(s) ==
  IF s # <<>> /\ IsDigit(Head(s)) THEN <<Head(s)>> \o DigitRun(Tail(s))
  ELSE <<>>

RECURSIVE DropDigits(_)
DropDigits(s) ==
  IF s # <<>> /\ IsDigit(Head(s)) THEN DropDigits(Tail(s)) ELSE s

\* parseFloat(s) on strings over Chars: leading white space is skipped, then
\* an optional sign, a run of digits and an optional "." with more digits
\* are read (one of the two runs must be non-empty); whatever follows is
\* ignored; NaN when no number starts there.
parseFloat(s) ==
  LET t == SkipSpaces(s)
      neg == t # <<>> /\ Head(t) = "-"
      u == IF t # <<>> /\ Head(t) \in {"-", "+"} THEN Tail(t) ELSE t
      rest == DropDigits(u)
      frac == IF rest # <<>> /\ Head(rest) = "." THEN DigitRun(Tail(rest))
              ELSE <<>>
      int == DigitPrefix(u, 0)
  IN IF DigitRun(u) = <<>> /\ frac = <<>> THEN NaN
     ELSE [nan |-> FALSE, neg |-> neg, n |-> IF neg THEN 0 - int ELSE int,
           frac |-> frac]

\* strings never parsed: only cells that are numbers count
toNumberNumbersOnly(cell) ==
  IF cell.t = "number" THEN Number(cell.n) ELSE NaN

\* typeof item[key] === 'number' ? item[key] : parseFloat(item[key])
\* (parseFloat of undefined or null is NaN)
toNumber(cell) ==
  IF cell.t = "number" THEN Number(cell.n)
  ELSE IF cell.t = "string" THEN parseFloat(cell.s)
  ELSE NaN

\* data.map(coerce).filter(not NaN): the numeric values of a column, in row
\* order (whole numbers: the datasets of this section have no fraction
\* digits; columns with fractions are handled in the Float section)
RECURSIVE numericValues(_, _)
numericValues(rows, col) ==
  IF rows = <<>> THEN <<>>
  ELSE LET v == toNumber(Get(Head(rows), col))
       IN (IF v.nan THEN <<>> ELSE <<v.n>>) \o numericValues(Tail(rows), col)

(***************************************************************************)
(* Sequences of numbers                                                    *)
(***************************************************************************)
\* the values left in row order
SortAscLeftUnsorted(s) == s

\* numericValues.sort((a, b) => a - b): the values in ascending order; the
\* element at place i is the value v with fewer than i elements below it
\* and at least i elements not above it
SortAsc(s) ==
  [i \in 1..Len(s) |->
     CHOOSE v \in {s[j] : j \in 1..Len(s)} :
       /\ Cardinality({j \in 1..Len(s) : s[j] < v}) < i
       /\ i <= Cardinality({j \in 1..Len(s) : s[j] <= v})]

RECURSIVE Sum(_)
Sum(s) == IF s = <<>> THEN 0 ELSE Head(s) + Sum(Tail(s))

RECURSIVE SumSq(_, _)
\* sum over s of (n*v - total)^2
SumSq(s, c) ==
  IF s = <<>> THEN 0
  ELSE (c[1] * Head(s) - c[2]) * (c[1] * Head(s) - c[2]) + SumSq(Tail(s), c)

\* exact fractions, den > 0
Rat(n, d) == [num |-> n, den |-> d]
RatLT(a, b) == a.num * b.den < b.num * a.den
RatLE(a, b) == a.num * b.den <= b.num * a.den
RatEQ(a, b) == a.num * b.den = b.num * a.den

Abs(x) == IF x < 0 THEN 0 - x ELSE x

(***************************************************************************)
(* calculateStats                                                          *)
(***************************************************************************)
\* the rows in ascending order of their value in col, rows without a number
\* last, rows of equal value in their former order
SortRows(rows, col) ==
  LET before(j, k) ==
        LET a == toNumber(Get(rows[j], col))
            b == toNumber(Get(rows[k], col))
        IN \/ ~a.nan /\ b.nan
           \/ ~a.nan /\ ~b.nan /\ a.n < b.n
           \/ a.nan = b.nan /\ (a.nan \/ a.n = b.n) /\ j < k
  IN [i \in 1..Len(rows) |->
        rows[CHOOSE k \in 1..Len(rows) :
               Cardinality({j \in 1..Len(rows) : before(j, k)}) = i - 1]]

\* the sort applied to the caller's rows, as data.sort(by the column) would
calculateStatsArraysSortsData(rows, col) ==
  [data |-> SortRows(rows, col),
   numericValues |-> SortAsc(numericValues(rows, col))]

\* The arrays calculateStats works on: data is the caller's array, which it
\* only reads through map; numericValues is the fresh array returned by
\* map/filter, sorted in place.
calculateStatsArrays(rows, col) ==
  [data |-> rows, numericValues |-> SortAsc(numericValues(rows, col))]

\* the forEach with maxFreq replaced whenever a frequency reaches it: the
\* last value to reach the maximal frequency
RECURSIVE modeScanLastToReach(_, _, _, _)
modeScanLastToReach(s, i, maxFreq, mode) ==
  IF i > Len(s) THEN mode
  ELSE LET f == Cardinality({j \in 1..i : s[j] = s[i]})
       IN IF f >= maxFreq THEN modeScanLastToReach(s, i + 1, f, s[i])
          ELSE modeScanLastToReach(s, i + 1, maxFreq, mode)

\* the forEach of lines 28-34 from index i on: the first value whose running
\* frequency exceeds every frequency seen before it
RECURSIVE modeScan(_, _, _, _)
modeScan(s, i, maxFreq, mode) ==
  IF i > Len(s) THEN mode
  ELSE LET f == Cardinality({j \in 1..i : s[j] = s[i]})
       IN IF f > maxFreq THEN modeScan(s, i + 1, f, s[i])
          ELSE modeScan(s, i + 1, maxFreq, mode)

RECURSIVE Dedup(_)
Dedup(s) ==
  IF s = <<>> THEN <<>>
  ELSE IF \E i \in 2..Len(s) : s[i] = Head(s) THEN Dedup(Tail(s))
  ELSE <<Head(s)>> \o Dedup(Tail(s))

\* the outliers collected as a set of distinct values
outliersOfDeduplicated(sorted, q1, q3) ==
  LET iqr == q3 - q1
  IN Dedup(SelectSeq(sorted, LAMBDA v : 2 * v < 2 * q1 - 3 * iqr
                                       \/ 2 * v > 2 * q3 + 3 * iqr))

\* numericValues.filter(v => v < lowerBound || v > upperBound), with
\* lowerBound = q1 - 1.5 * iqr and upperBound = q3 + 1.5 * iqr
outliersOf(sorted, q1, q3) ==
  LET iqr == q3 - q1
      lowerBound == Rat(2 * q1 - 3 * iqr, 2)
      upperBound == Rat(2 * q3 + 3 * iqr, 2)
  IN SelectSeq(sorted, LAMBDA v : RatLT(Rat(v, 1), lowerBound)
                                  \/ RatLT(upperBound, Rat(v, 1)))

NullStats == [null |-> TRUE]

\* lines 9-73: the result computed from the sorted numeric values
statsOfValues(sorted) ==
  LET n == Len(sorted)
  IN IF n = 0 THEN NullStats
     ELSE
       LET sum == Sum(sorted)
           mid == n \div 2
           median == IF n % 2 = 0
                     THEN Rat(sorted[mid] + sorted[mid + 1], 2)
                     ELSE Rat(sorted[mid + 1], 1)
           variance == Rat(SumSq(sorted, <<n, sum>>), n * n * n)
           min == sorted[1]
           max == sorted[n]
           q1Index == n \div 4
           q3Index == (3 * n) \div 4
           q1 == sorted[q1Index + 1]
           q3 == sorted[q3Index + 1]
           outliers == outliersOf(sorted, q1, q3)
       IN [null |-> FALSE,
           count |-> n,
           min |-> min,
           max |-> max,
           range |-> max - min,
           sum |-> sum,
           mean |-> Rat(sum, n),
           median |-> median,
           mode |-> modeScan(sorted, 1, 0, 0),
           variance |-> variance,
           stdDev |-> [sqrtOf |-> variance],
           q1 |-> q1,
           q3 |-> q3,
           iqr |-> q3 - q1,
           outliers |-> outliers,
           hasOutliers |-> Len(outliers) > 0]

calculateStats(rows, col) ==
  statsOfValues(calculateStatsArrays(rows, col).numericValues)

(***************************************************************************)
(* Float: binary64 arithmetic of calculateStats on decimal inputs          *)
(*                                                                         *)
(* A positive number is [m, e]: m its 53 significand bits, most            *)
(* significant first and starting with 1, standing for m * 2^e.  Every     *)
(* operation returns the exact result rounded to nearest, ties to even.    *)
(* The exponent range is not modelled: the values of this section stay     *)
(* far from overflow and underflow.                                        *)
(***************************************************************************)
\* significand bits of a JavaScript number
Precision == 53

FloatZero == [zero |-> TRUE, m |-> <<>>, e |-> 0]
Float(m, e) == [zero |-> FALSE, m |-> m, e |-> e]

Zeros(n) == [i \in 1..n |-> 0]

\* bits without its leading zeros
StripZeros(b) ==
  IF \A i \in 1..Len(b) : b[i] = 0 THEN <<>>
  ELSE SubSeq(b, CHOOSE i \in 1..Len(b) :
                   b[i] = 1 /\ \A j \in 1..(i - 1) : b[j] = 0, Len(b))

\* the bits of the natural number n
RECURSIVE Binary(_)
Binary(n) == IF n = 0 THEN <<>> ELSE Binary(n \div 2) \o <<n % 2>>

\* the natural number a string of at most 15 bits stands for
RECURSIVE BitsVal(_)
BitsVal(b) ==
  IF b = <<>> THEN 0
  ELSE 2 * BitsVal(SubSeq(b, 1, Len(b) - 1)) + b[Len(b)]

\* Long bit strings are added and divided 15 bits at a time.
LimbBase == 2 ^ 15

\* bits cut into groups of 15, after zeros put in front to fill the first
ToLimbs(bits) ==
  LET n == (Len(bits) + 14) \div 15
      p == Zeros(15 * n - Len(bits)) \o bits
  IN [j \in 1..n |-> BitsVal(SubSeq(p, 15 * (j - 1) + 1, 15 * j))]

FromLimbs(limbs) ==
  [i \in 1..(15 * Len(limbs)) |->
     (limbs[((i - 1) \div 15) + 1] \div (2 ^ (14 - ((i - 1) % 15)))) % 2]

\* a + b + carry over the groups 1..j: the carry out, then the groups
RECURSIVE LimbAdd(_, _, _, _)
LimbAdd(a, b, j, carry) ==
  IF j = 0 THEN <<carry>>
  ELSE LimbAdd(a, b, j - 1, (a[j] + b[j] + carry) \div LimbBase)
         \o <<(a[j] + b[j] + carry) % LimbBase>>

\* a + b for two bit strings
AddBits(a, b) ==
  LET L == IF Len(a) > Len(b) THEN Len(a) ELSE Len(b)
      al == ToLimbs(Zeros(L - Len(a)) \o a)
      bl == ToLimbs(Zeros(L - Len(b)) \o b)
  IN StripZeros(FromLimbs(LimbAdd(al, bl, Len(al), 0)))

\* long division of the groups by the positive integer n < 2^15, from group
\* j on with remainder r: the quotient groups, then the final remainder
RECURSIVE LimbDiv(_, _, _, _)
LimbDiv(limbs, j, r, n) ==
  IF j > Len(limbs) THEN <<r>>
  ELSE <<(r * LimbBase + limbs[j]) \div n>>
         \o LimbDiv(limbs, j + 1, (r * LimbBase + limbs[j]) % n, n)

\* bits divided by n: quotient bits q and remainder r
DivBits(bits, n) ==
  LET d == LimbDiv(ToLimbs(bits), 1, 0, n)
  IN [q |-> StripZeros(FromLimbs(SubSeq(d, 1, Len(d) - 1))),
      r |-> d[Len(d)]]

\* The number bits * 2^e, plus a non-zero fraction of its last place when
\* sticky, rounded to Precision bits, ties to even.
Round(bits, e, sticky) ==
  LET b == StripZeros(bits)
      L == Len(b)
  IN IF L = 0 THEN FloatZero
     ELSE IF L <= Precision
     THEN Float(b \o Zeros(Precision - L), e - (Precision - L))
     ELSE
       LET keep == SubSeq(b, 1, Precision)
           guard == b[Precision + 1]
           below == sticky \/ \E i \in (Precision + 2)..L : b[i] = 1
           roundUp == guard = 1 /\ (below \/ keep[Precision] = 1)
           up == AddBits(keep, <<1>>)
       IN IF ~roundUp THEN Float(keep, e + (L - Precision))
          ELSE IF Len(up) = Precision THEN Float(up, e + (L - Precision))
          \* the carry ran out of the top: 1 followed by zeros
          ELSE Float(SubSeq(up, 1, Precision), e + (L - Precision) + 1)

\* the number nearest to p / q, for integers p >= 0 and 0 < q
FromRatio(p, q) ==
  LET d == DivBits(Binary(p) \o Zeros(Precision + 20), q)
  IN Round(d.q, 0 - (Precision + 20), d.r # 0)

\* a + b
FloatAdd(a, b) ==
  IF a.zero THEN b
  ELSE IF b.zero THEN a
  ELSE
    LET e == IF a.e < b.e THEN a.e ELSE b.e
        am == a.m \o Zeros(a.e - e)
        bm == b.m \o Zeros(b.e - e)
    IN Round(AddBits(am, bm), e, FALSE)

\* a / n for an integer n > 0 (numericValues.length)
FloatDivInt(a, n) ==
  IF a.zero THEN FloatZero
  ELSE LET d == DivBits(a.m \o Zeros(20), n)
       IN Round(d.q, a.e - 20, d.r # 0)

\* 10^k
RECURSIVE Pow10(_)
Pow10(k) == IF k = 0 THEN 1 ELSE 10 * Pow10(k - 1)

\* the number a parsed literal without sign stands for: parseFloat returns
\* the number nearest to the decimal value
toFloat(parsed) ==
  FromRatio(parsed.n * Pow10(Len(parsed.frac)) + DigitPrefix(parsed.frac, 0),
            Pow10(Len(parsed.frac)))

\* data.map(coerce).filter(not NaN) for a column of strings
RECURSIVE floatValues(_, _)
floatValues(rows, col) ==
  IF rows = <<>> THEN <<>>
  ELSE LET v == toNumber(Get(Head(rows), col))
       IN (IF v.nan THEN <<>> ELSE <<toFloat(v)>>)
          \o floatValues(Tail(rows), col)

\* a < b for two numbers that are zero or positive
RECURSIVE BitsLT(_, _)
BitsLT(a, b) ==
  IF a = <<>> THEN FALSE
  ELSE IF Head(a) # Head(b) THEN Head(a) < Head(b)
  ELSE BitsLT(Tail(a), Tail(b))

FloatLT(a, b) ==
  IF b.zero THEN FALSE
  ELSE IF a.zero THEN TRUE
  ELSE a.e < b.e \/ (a.e = b.e /\ BitsLT(a.m, b.m))

\* numericValues.sort((a, b) => a - b)
FloatSortAsc(s) ==
  [i \in 1..Len(s) |->
     CHOOSE v \in {s[j] : j \in 1..Len(s)} :
       /\ Cardinality({j \in 1..Len(s) : FloatLT(s[j], v)}) < i
       /\ i <= Cardinality({j \in 1..Len(s) : ~FloatLT(v, s[j])})]

\* numericValues.reduce((acc, val) => acc + val, 0), from the left
RECURSIVE floatSum(_, _)
floatSum(values, acc) ==
  IF values = <<>> THEN acc
  ELSE floatSum(Tail(values), FloatAdd(acc, Head(values)))

\* Lines 14-15 and 36-39 of calculateStats in binary64.  value - mean is
\* zero iff value = mean, its square is zero iff it is, and the mean of the
\* squares and its root are zero iff every square is: stdDev is kept as
\* whether it is zero (it is positive otherwise).
calculateStatsFloat(rows, col) ==
  LET values == FloatSortAsc(floatValues(rows, col))
      n == Len(values)
  IN IF n = 0 THEN NullStats
     ELSE LET sum == floatSum(values, FloatZero)
              mean == FloatDivInt(sum, n)
          IN [null |-> FALSE, count |-> n, sum |-> sum, mean |-> mean,
              stdDevIsZero |-> \A i \in 1..n : values[i] = mean]

(***************************************************************************)
(* findMissingData                                                         *)
(***************************************************************************)
\* Object.keys(data[0] || {})
columnsOf(rows) == IF rows = <<>> THEN <<>> ELSE Keys(rows[1])

\* s.trim() === ''
TrimsToEmpty(s) == \A i \in 1..Len(s) : IsSpace(s[i])

\* the predicate without its last clause: a string of spaces is a value
isMissingWithoutTrim(cell) ==
  \/ cell.t = "undefined"
  \/ cell.t = "null"
  \/ cell.t = "string" /\ cell.s = <<>>

\* the filter predicate of lines 82-87
isMissing(cell) ==
  \/ cell.t = "undefined"
  \/ cell.t = "null"
  \/ cell.t = "string" /\ cell.s = <<>>
  \/ cell.t = "string" /\ TrimsToEmpty(cell.s)

missingCount(rows, col) ==
  Cardinality({i \in 1..Len(rows) : isMissing(Get(rows[i], col))})

\* the entries of missingData, in insertion order: one [col, missing] per
\* column of the first row with missing > 0
RECURSIVE missingEntries(_, _)
missingEntries(rows, cols) ==
  IF cols = <<>> THEN <<>>
  ELSE LET missing == missingCount(rows, Head(cols))
       IN (IF missing > 0 THEN <<[col |-> Head(cols), missing |-> missing]>>
           ELSE <<>>) \o missingEntries(rows, Tail(cols))

findMissingData(rows) == missingEntries(rows, columnsOf(rows))

(***************************************************************************)
(* findCorrelations                                                        *)
(***************************************************************************)
\* columns.filter(col => calculateStats(data, col) !== null && count > 0)
numericColumnsOf(rows) ==
  SelectSeq(columnsOf(rows), LAMBDA col : ~calculateStats(rows, col).null)

RECURSIVE SumProd(_, _, _, _)
\* sum over k of (n*a[k] - sa) * (n*b[k] - sb)
SumProd(a, b, k, c) ==
  IF k > Len(a) THEN 0
  ELSE (c[1] * a[k] - c[2]) * (c[1] * b[k] - c[3]) + SumProd(a, b, k + 1, c)

\* the greatest common divisor of two numbers that are zero or positive
RECURSIVE GCD(_, _)
GCD(a, b) == IF b = 0 THEN a ELSE GCD(b, a % b)

\* num / sqrt(d1 * d2) with the factor common to num, d1 and d2 cancelled
reducedQuotient(num, d1, d2) ==
  LET g == GCD(GCD(Abs(num), d1), d2)
      f == IF g = 0 THEN 1 ELSE g
  IN [num |-> num \div f, den |-> (d1 \div f) * (d2 \div f), root |-> TRUE]

\* Pearson's r of two value sequences of the same length n > 1, kept as
\* num / sqrt(den): with dx = n*(x - mean) the code's numerator, denom1 and
\* denom2 are num, d1 and d2 divided by n*n, which cancels.  The quotient is
\* NaN exactly when den = 0.
pearson(values1, values2) ==
  LET n == Len(values1)
      s1 == Sum(values1)
      s2 == Sum(values2)
  IN reducedQuotient(SumProd(values1, values2, 1, <<n, s1, s2>>),
                     SumProd(values1, values1, 1, <<n, s1, s1>>),
                     SumProd(values2, values2, 1, <<n, s2, s2>>))

\* isNaN(coefficient)
coefIsNaN(c) == c.den = 0
\* Math.abs(a) > Math.abs(b) for two coefficients that are numbers
coefAbsGT(a, b) == a.num * a.num * b.den > b.num * b.num * a.den
\* Math.abs(coefficient) > p / q for a coefficient that is a number
coefAbsAbove(c, p, q) == q * q * c.num * c.num > p * p * c.den

\* the body of the inner loop, lines 110-155: the pair pushed for the
\* columns col1 and col2, if any
pairOfValues(col1, col2, values1, values2) ==
  IF Len(values1) = Len(values2) /\ Len(values1) > 1
  THEN LET coefficient == pearson(values1, values2)
       IN IF ~coefIsNaN(coefficient) /\ coefAbsAbove(coefficient, 1, 2)
          THEN <<[col1 |-> col1, col2 |-> col2,
                  coefficient |-> coefficient]>>
          ELSE <<>>
  ELSE <<>>

\* lines 110-125: the two columns' values, mapped and filtered
pairOf(rows, col1, col2) ==
  pairOfValues(col1, col2, numericValues(rows, col1),
               numericValues(rows, col2))

\* the two nested loops of lines 108-157, from (i, j) on
RECURSIVE pairsFrom(_, _, _, _)
pairsFrom(rows, cols, i, j) ==
  IF i > Len(cols) THEN <<>>
  ELSE IF j > Len(cols) THEN pairsFrom(rows, cols, i + 1, i + 2)
  ELSE pairOf(rows, cols[i], cols[j]) \o pairsFrom(rows, cols, i, j + 1)

\* correlations.sort((a, b) => Math.abs(b.coefficient) -
\* Math.abs(a.coefficient)): strongest first, pairs of equal strength in
\* their former order (the sort is stable)
SortPairs(s) ==
  LET before(j, k) ==
        /\ j # k
        /\ \/ coefAbsGT(s[j].coefficient, s[k].coefficient)
           \/ ~coefAbsGT(s[k].coefficient, s[j].coefficient) /\ j < k
  IN [i \in 1..Len(s) |->
        s[CHOOSE k \in 1..Len(s) :
            Cardinality({j \in 1..Len(s) : before(j, k)}) = i - 1]]

findCorrelations(rows) ==
  SortPairs(pairsFrom(rows, numericColumnsOf(rows), 1, 2))

(***************************************************************************)
(* Float: the coefficient of findCorrelations in binary64                  *)
(*                                                                         *)
(* A number with a sign is [neg, f], f a number of the Float section.      *)
(***************************************************************************)
\* a < b for two bit strings without leading zeros
NatLT(a, b) ==
  \/ Len(a) < Len(b)
  \/ /\ Len(a) = Len(b)
     /\ \E i \in 1..Len(a) :
          a[i] < b[i] /\ \A j \in 1..(i - 1) : a[j] = b[j]

\* a - b - borrow over the groups 1..j
RECURSIVE LimbSub(_, _, _, _)
LimbSub(a, b, j, borrow) ==
  IF j = 0 THEN <<>>
  ELSE LimbSub(a, b, j - 1, IF a[j] - b[j] - borrow < 0 THEN 1 ELSE 0)
         \o <<(a[j] - b[j] - borrow + LimbBase) % LimbBase>>

\* a - b for two bit strings, a not below b
SubBits(a, b) ==
  StripZeros(FromLimbs(LimbSub(ToLimbs(a),
                               ToLimbs(Zeros(Len(a) - Len(b)) \o b),
                               (Len(a) + 14) \div 15, 0)))

\* a * d + carry over the groups 1..j, for one group d: the carry out, then
\* the groups
RECURSIVE LimbMulSmall(_, _, _, _)
LimbMulSmall(a, d, j, carry) ==
  IF j = 0 THEN <<carry>>
  ELSE LimbMulSmall(a, d, j - 1, (a[j] * d + carry) \div LimbBase)
         \o <<(a[j] * d + carry) % LimbBase>>

\* acc * 2^(15 * (Len(bl) - j + 1)) + a * (the groups j.. of bl)
RECURSIVE MulFrom(_, _, _, _)
MulFrom(al, bl, j, acc) ==
  IF j > Len(bl) THEN acc
  ELSE MulFrom(al, bl, j + 1,
         AddBits(acc \o Zeros(15),
                 StripZeros(FromLimbs(LimbMulSmall(al, bl[j], Len(al), 0)))))

\* a * b for two bit strings
MulBits(a, b) == MulFrom(ToLimbs(a), ToLimbs(b), 1, <<>>)

\* One step of a long division by the bit string d: st is [q, r], the
\* quotient bits so far and the remainder; the next bit of the dividend
\* is 0.
DivStep(st, d) ==
  IF NatLT(StripZeros(st.r \o <<0>>), d)
  THEN [q |-> st.q \o <<0>>, r |-> StripZeros(st.r \o <<0>>)]
  ELSE [q |-> st.q \o <<1>>, r |-> SubBits(StripZeros(st.r \o <<0>>), d)]

\* count steps of the division, halving the count; the first half is
\* computed before the second is entered
RECURSIVE DivSteps(_, _, _)
DivSteps(st, d, count) ==
  IF count = 0 THEN st
  ELSE IF count = 1 THEN DivStep(st, d)
  ELSE LET half == DivSteps(st, d, count \div 2)
       IN IF Len(half.q) >= 0
          THEN DivSteps(half, d, count - (count \div 2))
          ELSE half

\* One step of the square root of the bit string n, two bits of n at a
\* time: st is [q, r], the root of the bits read so far and what is left
\* of them; i is the place of the pair.
SqrtStep(st, n, i) ==
  IF NatLT(StripZeros(st.r \o <<n[2 * i - 1], n[2 * i]>>),
           StripZeros(st.q \o <<0, 1>>))
  THEN [q |-> st.q \o <<0>>,
        r |-> StripZeros(st.r \o <<n[2 * i - 1], n[2 * i]>>)]
  ELSE [q |-> st.q \o <<1>>,
        r |-> SubBits(StripZeros(st.r \o <<n[2 * i - 1], n[2 * i]>>),
                      StripZeros(st.q \o <<0, 1>>))]

\* the steps for the pairs i..j, halving the range; the first half is
\* computed before the second is entered
RECURSIVE SqrtSteps(_, _, _, _)
SqrtSteps(st, n, i, j) ==
  IF i > j THEN st
  ELSE IF i = j THEN SqrtStep(st, n, i)
  ELSE LET half == SqrtSteps(st, n, i, (i + j) \div 2)
       IN IF Len(half.q) >= 0
          THEN SqrtSteps(half, n, ((i + j) \div 2) + 1, j)
          ELSE half

\* a * b for two numbers that are zero or positive
FloatMul(a, b) ==
  IF a.zero \/ b.zero THEN FloatZero
  ELSE Round(MulBits(a.m, b.m), a.e + b.e, FALSE)

\* a - b for a not below b, both zero or positive
FloatSubAbs(a, b) ==
  IF b.zero THEN a
  ELSE Round(SubBits(a.m \o Zeros(a.e - (IF a.e < b.e THEN a.e ELSE b.e)),
                     StripZeros(b.m \o Zeros(b.e - (IF a.e < b.e THEN a.e
                                                    ELSE b.e)))),
             IF a.e < b.e THEN a.e ELSE b.e, FALSE)

\* the quotient bits and remainder of a.m * 2^(Precision + 3) by b.m,
\* rounded
FloatDivOf(st, e) == Round(st.q, e, st.r # <<>>)

\* a / b for a zero or positive and b positive
FloatDiv(a, b) ==
  IF a.zero THEN FloatZero
  ELSE FloatDivOf(DivSteps(IF NatLT(a.m, b.m) THEN [q |-> <<>>, r |-> a.m]
                           ELSE [q |-> <<1>>, r |-> SubBits(a.m, b.m)],
                           b.m, Precision + 3),
                  a.e - b.e - (Precision + 3))

\* the root bits and remainder, rounded
FloatSqrtOf(st, e) == Round(st.q, e, st.r # <<>>)

\* Math.sqrt(a) for a zero or positive: the root of a.m * 2^k, with k = 57
\* or 58 making the exponent even and the root 55 bits long
FloatSqrt(a) ==
  IF a.zero THEN FloatZero
  ELSE IF (a.e - 57) % 2 = 0
  THEN FloatSqrtOf(SqrtSteps([q |-> <<>>, r |-> <<>>],
                             a.m \o Zeros(57), 1, 55),
                   (a.e - 57) \div 2)
  ELSE FloatSqrtOf(SqrtSteps([q |-> <<>>, r |-> <<>>],
                             <<0>> \o a.m \o Zeros(58), 1, 56),
                   (a.e - 58) \div 2)

Signed(neg, f) == [neg |-> neg /\ ~f.zero, f |-> f]

\* a + b
SignedAdd(a, b) ==
  IF a.neg = b.neg THEN Signed(a.neg, FloatAdd(a.f, b.f))
  ELSE IF FloatLT(a.f, b.f) THEN Signed(b.neg, FloatSubAbs(b.f, a.f))
  ELSE Signed(a.neg, FloatSubAbs(a.f, b.f))

\* a - b
SignedSub(a, b) == SignedAdd(a, [neg |-> ~b.neg, f |-> b.f])

\* a * b
SignedMul(a, b) == Signed(a.neg # b.neg, FloatMul(a.f, b.f))

\* a coefficient: NaN, or an infinity, or the number with sign neg and size f
CoefNaN == [nan |-> TRUE, inf |-> FALSE, neg |-> FALSE, f |-> FloatZero]
CoefInf(neg) == [nan |-> FALSE, inf |-> TRUE, neg |-> neg, f |-> FloatZero]
Coef(neg, f) == [nan |-> FALSE, inf |-> FALSE, neg |-> neg /\ ~f.zero, f |-> f]

\* lines 141-146: one round of the loop on [numerator, denom1, denom2]
pearsonStepCrossDenom(acc, diff1, diff2) ==
  [numerator |-> SignedAdd(acc.numerator, SignedMul(diff1, diff2)),
   denom1 |-> SignedAdd(acc.denom1, SignedMul(diff1, diff1)),
   denom2 |-> SignedAdd(acc.denom2, SignedMul(diff1, diff2))]

\* lines 141-146: one pass of the loop
pearsonStep(acc, diff1, diff2) ==
  [numerator |-> SignedAdd(acc.numerator, SignedMul(diff1, diff2)),
   denom1 |-> SignedAdd(acc.denom1, SignedMul(diff1, diff1)),
   denom2 |-> SignedAdd(acc.denom2, SignedMul(diff2, diff2))]

\* the loop of lines 140-147 from k on
RECURSIVE pearsonLoop(_, _, _, _, _)
pearsonLoop(values1, values2, means, k, acc) ==
  IF k > Len(values1) THEN acc
  ELSE LET next == pearsonStep(acc,
                     SignedSub(Signed(FALSE, values1[k]), means[1]),
                     SignedSub(Signed(FALSE, values2[k]), means[2]))
       IN IF next.numerator.neg \in BOOLEAN
          THEN pearsonLoop(values1, values2, means, k + 1, next)
          ELSE next

\* numerator / den
coefficientOfQuotient(numerator, den) ==
  IF den.zero
  THEN IF numerator.f.zero THEN CoefNaN ELSE CoefInf(numerator.neg)
  ELSE Coef(numerator.neg, FloatDiv(numerator.f, den))

\* line 149: numerator / (Math.sqrt(denom1) * Math.sqrt(denom2))
coefficientOf(acc) ==
  coefficientOfQuotient(acc.numerator,
                        FloatMul(FloatSqrt(acc.denom1.f),
                                 FloatSqrt(acc.denom2.f)))

\* lines 129-149 in binary64, for two sequences of n > 1 numbers that are
\* zero or positive
pearsonFloat(values1, values2) ==
  coefficientOf(
    pearsonLoop(values1, values2,
                <<Signed(FALSE, FloatDivInt(floatSum(values1, FloatZero),
                                            Len(values1))),
                  Signed(FALSE, FloatDivInt(floatSum(values2, FloatZero),
                                            Len(values2)))>>,
                1,
                [numerator |-> Signed(FALSE, FloatZero),
                 denom1 |-> Signed(FALSE, FloatZero),
                 denom2 |-> Signed(FALSE, FloatZero)]))

\* the numbers 1 / 2, 7 / 10, 9 / 10 and 1 as the code writes them
FloatOf(p, q) == FromRatio(p, q)

\* Math.abs(c) > p / q for a coefficient that is not NaN
coefFloatAbove(c, p, q) == c.inf \/ FloatLT(FloatOf(p, q), c.f)

\* Math.abs(a) > Math.abs(b) for two coefficients that are not NaN
coefFloatAbsGT(a, b) ==
  ~b.inf /\ (a.inf \/ FloatLT(b.f, a.f))

\* lines 151-154: the pair pushed for a coefficient, if any
pairOfCoefficient(col1, col2, coefficient) ==
  IF ~coefficient.nan /\ coefFloatAbove(coefficient, 1, 2)
  THEN <<[col1 |-> col1, col2 |-> col2, coefficient |-> coefficient]>>
  ELSE <<>>

\* lines 127-155 with the longer sequence cut to the length of the shorter
\* one instead of the test of line 128
pairOfFloatValuesCut(col1, col2, values1, values2) ==
  LET n == IF Len(values1) < Len(values2) THEN Len(values1)
           ELSE Len(values2)
  IN IF n > 1
     THEN pairOfCoefficient(col1, col2,
            pearsonFloat(SubSeq(values1, 1, n), SubSeq(values2, 1, n)))
     ELSE <<>>

\* lines 127-155
pairOfFloatValues(col1, col2, values1, values2) ==
  IF Len(values1) = Len(values2) /\ Len(values1) > 1
  THEN pairOfCoefficient(col1, col2, pearsonFloat(values1, values2))
  ELSE <<>>

\* the body of the inner loop, lines 110-155
pairOfFloat(rows, col1, col2) ==
  pairOfFloatValues(col1, col2, floatValues(rows, col1),
                    floatValues(rows, col2))

\* the two nested loops of lines 108-157, from (i, j) on
RECURSIVE pairsFromFloat(_, _, _, _)
pairsFromFloat(rows, cols, i, j) ==
  IF i > Len(cols) THEN <<>>
  ELSE IF j > Len(cols) THEN pairsFromFloat(rows, cols, i + 1, i + 2)
  ELSE pairOfFloat(rows, cols[i], cols[j])
         \o pairsFromFloat(rows, cols, i, j + 1)

\* line 160: strongest first, pairs of equal strength in their former order
SortPairsFloat(s) ==
  LET before(j, k) ==
        /\ j # k
        /\ \/ coefFloatAbsGT(s[j].coefficient, s[k].coefficient)
           \/ ~coefFloatAbsGT(s[k].coefficient, s[j].coefficient) /\ j < k
  IN [i \in 1..Len(s) |->
        s[CHOOSE k \in 1..Len(s) :
            Cardinality({j \in 1..Len(s) : before(j, k)}) = i - 1]]

\* findCorrelations with its coefficients in binary64
findCorrelationsFloat(rows) ==
  SortPairsFloat(pairsFromFloat(rows, numericColumnsOf(rows), 1, 2))

(***************************************************************************)
(* detectTrends                                                            *)
(***************************************************************************)
\* a value equal to the one before it counted as an increase
increasesOfOrEqual(values) ==
  Cardinality({i \in 2..Len(values) : values[i] >= values[i - 1]})

\* lines 180-183: the pairs of consecutive values that grow, and below
\* those that shrink
increasesOf(values) ==
  Cardinality({i \in 2..Len(values) : values[i] > values[i - 1]})
decreasesOf(values) ==
  Cardinality({i \in 2..Len(values) : values[i] < values[i - 1]})

NullResult == [null |-> TRUE]

\* A quotient the code computes is kept as [num, den, root]: it stands for
\* num / den, or for num / sqrt(den) when root is TRUE.  den = 0 is a
\* division by zero: NaN or an infinity in the code.
Quot(n, d) == [num |-> n, den |-> d, root |-> FALSE]

\* lines 174-211: the trend of the values of a column
trendOfValues(values) ==
  IF Len(values) < 5 THEN NullResult
  ELSE
    LET increases == increasesOf(values)
        decreases == decreasesOf(values)
        totalChanges == increases + decreases
        first == values[1]
        last == values[Len(values)]
    IN IF totalChanges = 0 THEN NullResult
       \* increasePercent > 60
       ELSE IF 100 * increases > 60 * totalChanges
       THEN [null |-> FALSE, direction |-> "upward",
             consistency |-> Quot(100 * increases, totalChanges),
             \* (last / first - 1) * 100
             rate |-> Quot(100 * (last - first), first),
             upPercent |-> Quot(100 * increases, totalChanges),
             downPercent |-> Quot(100 * decreases, totalChanges)]
       \* decreasePercent > 60
       ELSE IF 100 * decreases > 60 * totalChanges
       THEN [null |-> FALSE, direction |-> "downward",
             consistency |-> Quot(100 * decreases, totalChanges),
             \* (1 - last / first) * 100
             rate |-> Quot(100 * (first - last), first),
             upPercent |-> Quot(100 * increases, totalChanges),
             downPercent |-> Quot(100 * decreases, totalChanges)]
       ELSE [null |-> FALSE, direction |-> "fluctuating",
             consistency |-> Quot(0, 1),
             rate |-> Quot(0, 1),
             upPercent |-> Quot(100 * increases, totalChanges),
             downPercent |-> Quot(100 * decreases, totalChanges)]

detectTrends(rows, column) ==
  IF Len(rows) < 5 THEN NullResult
  ELSE trendOfValues(numericValues(rows, column))

(***************************************************************************)
(* detectSeasonality                                                       *)
(***************************************************************************)
\* lines 228-238
directionsOf(values) ==
  [i \in 1..(Len(values) - 1) |->
     IF values[i + 1] > values[i] THEN "up"
     ELSE IF values[i + 1] < values[i] THEN "down"
     ELSE "same"]

\* lines 248-261: the start positions i (0-based in the code) at which the
\* block of patternLength directions equals the block that follows it
patternMatchesOf(directions, patternLength) ==
  Cardinality({i \in 1..(Len(directions) - 2 * patternLength + 1) :
     \A j \in 0..(patternLength - 1) :
        directions[i + j] = directions[i + patternLength + j]})

\* line 263 with the first block left out of the count
patternOccurrencesAfterFirst(directions, patternLength) ==
  (Len(directions) - patternLength) \div patternLength

\* line 263: Math.floor(directions.length / patternLength)
patternOccurrencesOf(directions, patternLength) ==
  Len(directions) \div patternLength

\* line 266 with >= for >
confidenceAtLeast(patternMatches, den, best) ==
  CASE den > 0 /\ best.confidence.den > 0 ->
         patternMatches * best.confidence.den >= best.confidence.num * den
    [] den = 0 /\ best.confidence.den > 0 -> patternMatches > 0
    [] OTHER -> FALSE

\* line 266: confidence > patternConfidence, the confidence being
\* patternMatches / den (x / 0 is Infinity for x > 0 and NaN for x = 0; a
\* negative quotient is never greater)
confidenceGreater(patternMatches, den, best) ==
  CASE den > 0 /\ best.confidence.den > 0 ->
         patternMatches * best.confidence.den > best.confidence.num * den
    [] den = 0 /\ best.confidence.den > 0 -> patternMatches > 0
    [] OTHER -> FALSE

\* the loop of lines 244-270 from patternLength on; best is
\* [maxPatternLength, patternConfidence], the confidence being the quotient
\* patternMatches / (patternOccurrences - 1)
RECURSIVE seasonalityLoop(_, _, _)
seasonalityLoop(directions, patternLength, best) ==
  IF patternLength > 4 THEN best
  ELSE IF Len(directions) < patternLength * 2
  THEN seasonalityLoop(directions, patternLength + 1, best)
  ELSE
    LET patternMatches == patternMatchesOf(directions, patternLength)
        patternOccurrences == patternOccurrencesOf(directions, patternLength)
        den == patternOccurrences - 1
    IN IF confidenceGreater(patternMatches, den, best)
       THEN seasonalityLoop(directions, patternLength + 1,
              [maxPatternLength |-> patternLength,
               confidence |-> Quot(patternMatches, den)])
       ELSE seasonalityLoop(directions, patternLength + 1, best)

\* lines 272-279: best is the loop's [maxPatternLength, patternConfidence]
patternOfBest(best) ==
  \* patternConfidence > 0.3
  IF 10 * best.confidence.num > 3 * best.confidence.den
  THEN [null |-> FALSE, patternLength |-> best.maxPatternLength,
        confidence |-> best.confidence]
  ELSE NullResult

\* lines 225-279: the pattern of the values of a column
patternOfValues(values) ==
  IF Len(values) < 10 THEN NullResult
  ELSE patternOfBest(seasonalityLoop(directionsOf(values), 2,
                       [maxPatternLength |-> 0, confidence |-> Quot(0, 1)]))

detectSeasonality(rows, column) ==
  IF Len(rows) < 10 THEN NullResult
  ELSE patternOfValues(numericValues(rows, column))

(***************************************************************************)
(* analyzeData                                                             *)
(***************************************************************************)
\* An insight string is kept as the template it is built from: its step
\* (category), which of the step's templates (variant), the wording chosen
\* inside the template (note), the columns named and the numbers printed.
Insight(category, variant, note, col1, col2, args) ==
  [category |-> category, variant |-> variant, note |-> note,
   col1 |-> col1, col2 |-> col2, args |-> args]

\* insights.slice(0, 5)
InsightCap == 5

\* numericColumns.reduce((highest, column) =>
\*   columnStats[column].max > columnStats[highest].max ? column : highest,
\*   numericColumns[0])
RECURSIVE highestOf(_, _, _)
highestOf(columnStats, cols, highest) ==
  IF cols = <<>> THEN highest
  ELSE highestOf(columnStats, Tail(cols),
         IF columnStats[Head(cols)].max > columnStats[highest].max
         THEN Head(cols) ELSE highest)

\* the reduce of lines 363-366 with >= for >: the latest column on ties
RECURSIVE mostOutliersOfLatest(_, _, _)
mostOutliersOfLatest(columnStats, cols, most) ==
  IF cols = <<>> THEN most
  ELSE mostOutliersOfLatest(columnStats, Tail(cols),
         IF Len(columnStats[Head(cols)].outliers)
              >= Len(columnStats[most].outliers)
         THEN Head(cols) ELSE most)

\* outlierColumns.reduce((most, column) => columnStats[column].outliers.length
\*   > columnStats[most].outliers.length ? column : most, outlierColumns[0])
RECURSIVE mostOutliersOf(_, _, _)
mostOutliersOf(columnStats, cols, most) ==
  IF cols = <<>> THEN most
  ELSE mostOutliersOf(columnStats, Tail(cols),
         IF Len(columnStats[Head(cols)].outliers)
              > Len(columnStats[most].outliers)
         THEN Head(cols) ELSE most)

\* Math.max(...s.map(Math.abs)), s not empty
RECURSIVE MaxAbs(_)
MaxAbs(s) ==
  IF \A i \in 2..Len(s) : Abs(s[i]) <= Abs(Head(s)) THEN Abs(Head(s))
  ELSE MaxAbs(Tail(s))

\* step 1, lines 304-317
extremesInsights(columnStats, numericColumns) ==
  IF Len(numericColumns) > 0
  THEN LET highestValueColumn ==
             highestOf(columnStats, numericColumns, numericColumns[1])
           st == columnStats[highestValueColumn]
           \* (max / mean - 1) * 100
           percentAboveAvg == Quot(100 * (st.count * st.max - st.sum), st.sum)
           \* (max - mean) / stdDev
           zScore == [num |-> (st.count * st.max - st.sum) * st.count,
                      den |-> st.variance.num * st.count, root |-> TRUE]
       IN <<Insight("extremes", "highest", "", highestValueColumn, "",
                    <<Quot(st.max, 1), Quot(st.sum, st.count),
                      percentAboveAvg, zScore>>)>>
  ELSE <<>>

\* step 2, lines 319-340
\* lines 324-339: the insights pushed for the two results
trendInsightsOf(trendColumn, trendResult, patternResult) ==
  (IF trendResult.null THEN <<>>
   ELSE IF trendResult.direction \in {"upward", "downward"}
   THEN <<Insight("trend", trendResult.direction, "", trendColumn, "",
                  <<trendResult.consistency, trendResult.rate>>)>>
   ELSE <<Insight("trend", "fluctuating", "", trendColumn, "",
                  <<trendResult.upPercent, trendResult.downPercent>>)>>)
  \o
  (IF patternResult.null THEN <<>>
   ELSE <<Insight("seasonality", "cyclical", "", trendColumn, "",
                  <<Quot(patternResult.patternLength, 1),
                    patternResult.confidence>>)>>)

trendInsights(rows, numericColumns) ==
  IF Len(numericColumns) > 0
  THEN trendInsightsOf(numericColumns[1],
                       detectTrends(rows, numericColumns[1]),
                       detectSeasonality(rows, numericColumns[1]))
  ELSE <<>>

\* step 3 without its else branch
missingInsightsOnlyWhenDetected(rows, columns) ==
  IF Len(findMissingData(rows)) > 0
  THEN <<Insight("missing", "detected", "", "", "", <<>>)>>
  ELSE <<>>

\* step 3, lines 342-357
missingInsightsOf(missingData, rowCount, columnCount) ==
  LET \* some(count => count / data.length > 0.2)
      impactLevel ==
        IF \E i \in 1..Len(missingData) :
              5 * missingData[i].missing > rowCount
        THEN "significant" ELSE "minimal"
  IN IF Len(missingData) > 0
     THEN <<Insight("missing", "detected", impactLevel,
                    missingData[1].col, "",
                    [i \in 1..Len(missingData) |->
                       Quot(missingData[i].missing, rowCount)])>>
     ELSE <<Insight("missing", "none", "", "", "",
                    <<Quot(columnCount, 1), Quot(rowCount, 1)>>)>>

missingInsights(rows, columns) ==
  missingInsightsOf(findMissingData(rows), Len(rows), Len(columns))

\* step 4, lines 359-383
outlierInsights(rows, columnStats, numericColumns) ==
  LET outlierColumns ==
        SelectSeq(numericColumns, LAMBDA col : columnStats[col].hasOutliers)
  IN IF Len(outlierColumns) > 0
     THEN LET significantOutlierColumn ==
                mostOutliersOf(columnStats, outlierColumns, outlierColumns[1])
              st == columnStats[significantOutlierColumn]
              outlierCount == Len(st.outliers)
              nonOutlierSum == st.sum - Sum(st.outliers)
              nonOutlierCount == st.count - outlierCount
              \* |(sum/count - nonOutlierSum/nonOutlierCount)
              \*    / (nonOutlierSum/nonOutlierCount) * 100|
              meanImpactPercent ==
                Quot(Abs(100 * (st.sum * nonOutlierCount
                                  - nonOutlierSum * st.count)),
                     Abs(st.count * nonOutlierSum))
              \* meanImpactPercent > 10 (false for NaN, true for Infinity)
              substantial ==
                meanImpactPercent.num > 10 * meanImpactPercent.den
          IN <<Insight("outliers", "detected",
                       IF substantial THEN "substantial" ELSE "small",
                       significantOutlierColumn, "",
                       <<Quot(outlierCount, 1),
                         Quot(100 * outlierCount, Len(rows)),
                         Quot(MaxAbs(st.outliers), 1),
                         meanImpactPercent>>)>>
     ELSE IF Len(numericColumns) > 0
     THEN <<Insight("outliers", "none", "", "", "", <<>>)>>
     ELSE <<>>

\* step 5, lines 385-415
correlationInsightsOf(correlations, numericColumns) ==
  IF Len(correlations) > 0
  THEN LET strongestCorrelation == correlations[1]
           c == strongestCorrelation.coefficient
           correlationType == IF c.num > 0 THEN "positive" ELSE "negative"
           strengthDescription ==
             IF coefAbsAbove(c, 9, 10) THEN "very strong"
             ELSE IF coefAbsAbove(c, 7, 10) THEN "strong"
             ELSE IF coefAbsAbove(c, 5, 10) THEN "moderate"
             ELSE "weak"
       IN <<Insight("correlation", correlationType, strengthDescription,
                    strongestCorrelation.col1, strongestCorrelation.col2,
                    <<c>>)>>
  ELSE IF Len(numericColumns) > 1
  THEN <<Insight("correlation", "none", "", "", "", <<>>)>>
  ELSE <<>>

\* lines 396-404 with the bound of the second tier at 0.8
strengthDescriptionCoarse(c) ==
  IF coefFloatAbove(c, 9, 10) THEN "very strong"
  ELSE IF coefFloatAbove(c, 8, 10) THEN "strong"
  ELSE IF coefFloatAbove(c, 5, 10) THEN "moderate"
  ELSE "weak"

\* lines 396-404, for a coefficient in binary64
strengthDescriptionOf(c) ==
  IF coefFloatAbove(c, 9, 10) THEN "very strong"
  ELSE IF coefFloatAbove(c, 7, 10) THEN "strong"
  ELSE IF coefFloatAbove(c, 5, 10) THEN "moderate"
  ELSE "weak"

\* step 5, lines 388-415, for the coefficients in binary64
correlationInsightsOfFloat(correlations, numericColumns) ==
  IF Len(correlations) > 0
  THEN LET strongestCorrelation == correlations[1]
           c == strongestCorrelation.coefficient
           \* coefficient > 0
           correlationType ==
             IF ~c.nan /\ ~c.neg /\ (c.inf \/ ~c.f.zero) THEN "positive"
             ELSE "negative"
       IN <<Insight("correlation", correlationType, strengthDescriptionOf(c),
                    strongestCorrelation.col1, strongestCorrelation.col2,
                    <<c>>)>>
  ELSE IF Len(numericColumns) > 1
  THEN <<Insight("correlation", "none", "", "", "", <<>>)>>
  ELSE <<>>

correlationInsights(rows, numericColumns) ==
  correlationInsightsOf(findCorrelations(rows), numericColumns)

\* lines 293-302: columnStats, here with an entry for every column, null
\* for those without a numeric value
columnStatsOf(rows) ==
  [col \in {Keys(rows[1])[i] : i \in 1..Len(Keys(rows[1]))} |->
     calculateStats(rows, col)]

\* the insights array before the slice
\* lines 304-415: the five steps in the order they push
stepsOf(rows, columns, columnStats, numericColumns) ==
  extremesInsights(columnStats, numericColumns)
  \o trendInsights(rows, numericColumns)
  \o missingInsights(rows, columns)
  \o outlierInsights(rows, columnStats, numericColumns)
  \o correlationInsights(rows, numericColumns)

\* lines 304-415 with the coefficients of step 5 in binary64: correlations
\* is the list findCorrelations returned at line 386
stepsOfCorrelations(rows, columns, columnStats, numericCols, correlations) ==
  extremesInsights(columnStats, numericCols)
  \o trendInsights(rows, numericCols)
  \o missingInsights(rows, columns)
  \o outlierInsights(rows, columnStats, numericCols)
  \o correlationInsightsOfFloat(correlations, numericCols)

insightsOfCorrelations(rows, columns, columnStats, correlations) ==
  stepsOfCorrelations(rows, columns, columnStats,
                      SelectSeq(columns, LAMBDA col : ~columnStats[col].null),
                      correlations)

\* lines 296-302: numericColumns, the columns with a columnStats entry
insightsOfStats(rows, columns, columnStats) ==
  stepsOf(rows, columns, columnStats,
          SelectSeq(columns, LAMBDA col : ~columnStats[col].null))

\* the insights array before the slice
generatedInsights(rows) ==
  insightsOfStats(rows, Keys(rows[1]), columnStatsOf(rows))

\* the last n elements kept instead of the first
SliceKeepsLast(s, n) == SubSeq(s, IF Len(s) < n THEN 1 ELSE Len(s) - n + 1,
                              Len(s))

\* the list returned whole
SliceKeepsAll(s, n) == s

Slice(s, n) == SubSeq(s, 1, IF Len(s) < n THEN Len(s) ELSE n)

\* an empty list returned for a missing or empty dataset
analyzeDataReturnsEmpty(d) ==
  IF d.null \/ Len(d.rows) = 0
  THEN [threw |-> FALSE, insights |-> <<>>]
  ELSE [threw |-> FALSE,
        insights |-> Slice(generatedInsights(d.rows), InsightCap)]

\* analyzeData(data): d is [null, rows], null for a call without a dataset;
\* the result is the rejection (threw) or the resolved list (insights)
analyzeData(d) ==
  IF d.null \/ Len(d.rows) = 0
  THEN [threw |-> TRUE, insights |-> <<>>]
  ELSE [threw |-> FALSE,
        insights |-> Slice(generatedInsights(d.rows), InsightCap)]

\* analyzeData with the coefficients of step 5 in binary64; correlations is
\* the value of findCorrelations(data) at line 386
analyzeDataOfCorrelations(d, correlations) ==
  IF d.null \/ Len(d.rows) = 0
  THEN [threw |-> TRUE, insights |-> <<>>]
  ELSE [threw |-> FALSE,
        insights |->
          Slice(insightsOfCorrelations(d.rows, Keys(d.rows[1]),
                                       columnStatsOf(d.rows), correlations),
                InsightCap)]

\* rows as calculateStats leaves them after being called for each of cols
RECURSIVE statsPass(_, _)
statsPass(rows, cols) ==
  IF cols = <<>> THEN rows
  ELSE statsPass(calculateStatsArrays(rows, Head(cols)).data, Tail(cols))

\* The caller's array after analyzeData: calculateStats runs for every
\* column in lines 296-302 and again in findCorrelations (lines 100-103);
\* the other helpers only map, filter and reduce.
dataAfterAnalyze(d) ==
  IF d.null \/ Len(d.rows) = 0 THEN d
  ELSE [d EXCEPT !.rows = statsPass(statsPass(d.rows, Keys(d.rows[1])),
                                    Keys(d.rows[1]))]

(***************************************************************************)
(* Inputs                                                                  *)
(***************************************************************************)
NoDataset == [null |-> TRUE, rows |-> <<>>]
Dataset(rows) == [null |-> FALSE, rows |-> rows]

\* rows of the datasets handed to analyzeData: no column, a column x, or
\* columns x and y
XCells == {Num(1), Str(<<"2">>), Str(<<>>)}
YCells == {Num(1), Num(3)}
RowSet ==
  {<<>>, <<Entry("x", Str(<<" ">>))>>}
  \cup {<<Entry("x", cx), Entry("y", cy)>> : cx \in XCells, cy \in YCells}

SeqsUpTo(S, n) == UNION {[1..k -> S] : k \in 0..n}

\* base repeated up to n rows
Cycle(base, n) == [i \in 1..n |-> base[((i - 1) % Len(base)) + 1]]

\* a dataset is an optional first row followed by a block of at most
\* MaxBase rows repeated up to at most MaxRows rows
DataSets ==
  {head \o Cycle(base, n) :
     head \in SeqsUpTo(RowSet, 1),
     base \in SeqsUpTo(RowSet, MaxBase) \ {<<>>},
     n \in 0..MaxRows}

\* columns handed to calculateStats alone
StatCells ==
  {Num(v) : v \in 0..MaxVal} \cup {Str(<<"-", "1">>), Str(<<"a">>)}
\* i times a, then j times b, then k times c
Runs(a, i, b, j, c, k) ==
  [n \in 1..(i + j + k) |-> IF n <= i THEN a ELSE IF n <= i + j THEN b ELSE c]
\* the one-column dataset whose column x holds the cells c
Column(c) == [i \in 1..Len(c) |-> <<Entry("x", c[i])>>]
\* the column of the scenario of the outlier rule
AgeColumn == <<Num(10), Num(20), Num(30), Num(40), Num(1000)>>
StatColumns ==
  {Column(c) : c \in SeqsUpTo(StatCells, MaxLen)}
  \cup {Column(Runs(Num(v[1]), l[1], Num(v[2]), l[2], Num(v[3]), l[3])) :
          v \in (0..MaxVal) \X (0..MaxVal) \X (0..MaxVal),
          l \in {t \in (0..MaxRunLen) \X (0..MaxRunLen) \X (0..MaxRunLen) :
                   t[1] + t[2] + t[3] <= MaxRunLen}}
  \cup {Column(AgeColumn)}

\* columns of decimal strings: 0.1, 0.2, 0.3, 0.7, 1, 1.5 and a word
FloatCells ==
  {Str(<<"0", ".", d>>) : d \in {"1", "2", "3", "7"}}
  \cup {Str(<<"1">>), Str(<<"1", ".", "5">>), Str(<<"a">>)}
FloatColumns == {Column(c) : c \in SeqsUpTo(FloatCells, MaxFloatLen)}

\* rows of the datasets handed to findCorrelations alone: columns x and y,
\* or x, y and z; numbers, decimal strings and a word
CorrRows2 ==
  {<<Entry("x", c[1]), Entry("y", c[2])>> :
     c \in {<<Num(0), Num(0)>>, <<Num(0), Num(3)>>, <<Num(3), Num(0)>>,
            <<Num(3), Num(3)>>,
            <<Str(<<"0", ".", "1">>), Str(<<"0", ".", "2">>)>>,
            <<Str(<<"a">>), Num(0)>>, <<Num(0), Str(<<"a">>)>>}}
CorrRows3 ==
  {<<Entry("x", c[1]), Entry("y", c[2]), Entry("z", c[3])>> :
     c \in {<<Num(0), Num(0), Num(3)>>, <<Num(3), Num(0), Num(0)>>,
            <<Num(0), Num(3), Num(3)>>, <<Num(3), Num(3), Num(1)>>}}
CorrDataSets ==
  UNION {[1..n -> CorrRows2] \cup [1..n -> CorrRows3] : n \in 2..MaxCorrRows}

\* rows of the datasets handed to findMissingData alone: each of the columns
\* x and y is absent from the row or holds a number, a word, an empty
\* string, a space or null
MissingRows ==
  {cx \o cy :
     cx \in {<<>>} \cup {<<Entry("x", c)>> :
                c \in {Num(0), Str(<<"a">>), Str(<<>>), Str(<<" ">>), Null}},
     cy \in {<<>>, <<Entry("y", Num(1))>>}}
MissingDataSets == SeqsUpTo(MissingRows, MaxMissingRows)

\* columns handed to the three helpers in turn: one cell of any kind, or a
\* block of one or two cells repeated
SeriesCells == {Num(1), Num(2), Str(<<"a">>)}
SeriesColumns ==
  {Column(<<c>>) : c \in StatCells}
  \cup {Column(Cycle(base, n)) :
          base \in SeqsUpTo(SeriesCells, 2) \ {<<>>}, n \in 0..MaxSeriesRows}

\* columns for detectTrends: every filling with four numbers, and every
\* filling with two numbers and a word
TrendCells == {Num(v) : v \in 1..4}
TrendColumns ==
  {Column(c) : c \in SeqsUpTo(TrendCells, MaxTrendRows)}
  \cup {Column(c) : c \in SeqsUpTo(SeriesCells, MaxTrendRows)}

\* datasets of five rows or more with the columns x and y, x growing from
\* row to row by steps that repeat and y twice x
ScenarioSteps == {1, 2, 3}
RECURSIVE growingValues(_, _, _)
growingValues(start, base, n) ==
  IF n = 1 THEN <<start>>
  ELSE LET before == growingValues(start, base, n - 1)
       IN Append(before,
                 before[n - 1] + base[((n - 2) % Len(base)) + 1])
ScenarioRows(xs) ==
  [i \in 1..Len(xs) |->
     <<Entry("x", Num(xs[i])), Entry("y", Num(2 * xs[i]))>>]
ScenarioDataSets ==
  {ScenarioRows(growingValues(start, base, n)) :
     start \in 1..2, base \in SeqsUpTo(ScenarioSteps, 2) \ {<<>>},
     n \in 5..MaxScenarioRows}

(***************************************************************************)
(* generateGeminiInsights (geminiService.ts)                               *)
(*                                                                         *)
(* A returned string is [t, id, s]: the characters s of a line of the      *)
(* reply, or the template id of a string the code builds itself.  An       *)
(* evaluation is [threw, insights]: the exception leaving a block, or the  *)
(* list it returns.                                                        *)
(***************************************************************************)
Newline == "\n"
Line(s) == [t |-> "string", id |-> "line", s |-> s]
Template(id) == [t |-> "string", id |-> id, s |-> <<>>]
Thrown == [threw |-> TRUE, insights |-> <<>>]
Returns(insights) == [threw |-> FALSE, insights |-> insights]

\* s.trim()
RECURSIVE DropTrailingSpaces(_)
DropTrailingSpaces(s) ==
  IF s # <<>> /\ IsSpace(s[Len(s)])
  THEN DropTrailingSpaces(SubSeq(s, 1, Len(s) - 1))
  ELSE s
Trim(s) == DropTrailingSpaces(SkipSpaces(s))

\* a decimal literal from its first to its last character: a sign, digits,
\* at most one decimal point, one digit at least
IsNumericLiteral(t) ==
  LET u == IF t # <<>> /\ t[1] \in {"-", "+"} THEN Tail(t) ELSE t
      points == {i \in 1..Len(u) : u[i] = "."}
  IN /\ Cardinality(points) <= 1
     /\ \A i \in (1..Len(u)) \ points : IsDigit(u[i])
     /\ \E i \in 1..Len(u) : IsDigit(u[i])

\* !isNaN(Number(value)): Number(undefined) is NaN, Number(null) and the
\* Number of a blank string are 0, another string must be a literal as a
\* whole
numberCoerces(cell) ==
  CASE cell.t = "number" -> TRUE
    [] cell.t = "undefined" -> FALSE
    [] cell.t = "null" -> TRUE
    [] cell.t = "string" ->
         Trim(cell.s) = <<>> \/ IsNumericLiteral(Trim(cell.s))

\* lines 237-241: columns and numericColumns, judged by the first row
geminiColumns(rows) == IF rows = <<>> THEN <<>> ELSE Keys(rows[1])
geminiNumericColumns(rows) ==
  SelectSeq(geminiColumns(rows),
            LAMBDA col : numberCoerces(Get(rows[1], col)))

\* data.map(item => Number(item[col])).filter(val => !isNaN(val)), as the
\* rows that pass
coercedRows(rows, col) ==
  SelectSeq(rows, LAMBDA item : numberCoerces(Get(item, col)))

\* text.split('\n')
RECURSIVE Split(_)
Split(text) ==
  IF \E i \in 1..Len(text) : text[i] = Newline
  THEN LET i == CHOOSE j \in 1..Len(text) :
                  text[j] = Newline /\ \A k \in 1..(j - 1) : text[k] # Newline
       IN <<SubSeq(text, 1, i - 1)>> \o Split(SubSeq(text, i + 1, Len(text)))
  ELSE <<text>>

\* the lines of the reply that are not blank
splitInsights(text) ==
  SelectSeq(Split(text), LAMBDA line : Trim(line) # <<>>)

\* every line of the reply returned
geminiInsightsOfTextUncut(text) ==
  [i \in 1..Len(splitInsights(text)) |-> Line(splitInsights(text)[i])]

\* lines 327-330: text.split('\n').filter(...) and insights.slice(0, 5)
geminiInsightsOfText(text) ==
  [i \in 1..Len(Slice(splitInsights(text), 5)) |->
     Line(Slice(splitInsights(text), 5)[i])]

\* lines 310-333, from JSON.parse on: the reply is [json, value], value the
\* parsed document; a member that may be missing is [has, ...]
tryResponse(ok, body) ==
  \* JSON.parse(responseText) throws: 'API response was not valid JSON'
  IF ~body.json THEN Thrown
  \* !response.ok
  ELSE IF ~ok THEN Thrown
  \* result.candidates of null
  ELSE IF body.null THEN Thrown
  ELSE IF /\ body.candidates.has
          /\ Len(body.candidates.items) > 0
          /\ body.candidates.items[1].content.has
  THEN LET parts == body.candidates.items[1].content.parts
       IN \* parts[0] of undefined, or text of undefined
          IF ~parts.has \/ parts.items = <<>> THEN Thrown
          \* text.split is not a function
          ELSE IF parts.items[1].text.t # "string" THEN Thrown
          ELSE Returns(geminiInsightsOfText(parts.items[1].text.s))
  \* 'Unexpected API response format for insights'
  ELSE Thrown

\* lines 334-379, the catch of the inner try; random is the index
\* Math.floor(Math.random() * numericColumns.length) came to, from 1
catchApiError(rows, random) ==
  LET numericColumns == geminiNumericColumns(rows)
  IN Returns(
       <<Template("rows and columns")>>
       \o (IF Len(numericColumns) > 0
              /\ Len(coercedRows(rows, numericColumns[random])) > 0
           THEN <<Template("range")>> ELSE <<>>)
       \o (IF Len(numericColumns) > 1
           THEN <<Template("relationship")>> ELSE <<>>)
       \o <<Template("visualize"), Template("validate")>>)

\* lines 380-391, the catch of the outer try
cannedInsights ==
  <<Template("could not generate"), Template("explore visually"),
    Template("check trends"), Template("look for relationships"),
    Template("data quality")>>

\* the inner try and its catch
innerTry(rows, ok, body, random) ==
  IF tryResponse(ok, body).threw THEN catchApiError(rows, random)
  ELSE tryResponse(ok, body)

\* the outer try and its catch around an evaluation
outerTry(evaluation) ==
  IF evaluation.threw THEN Returns(cannedInsights) ELSE evaluation

\* lines 228-265, up to the request: no key throws, and so does data[0]
\* without a dataset
beforeRequest(d, apiKey) ==
  IF ~apiKey \/ d.null THEN Thrown ELSE Returns(<<>>)

\* the values of random for a dataset
randomChoices(rows) ==
  1..(IF Len(geminiNumericColumns(rows)) > 0
      THEN Len(geminiNumericColumns(rows)) ELSE 1)

\* replies: a member or array that may be missing
Missing == [has |-> FALSE, items |-> <<>>]
Items(items) == [has |-> TRUE, items |-> items]
NoContent == [has |-> FALSE, parts |-> Missing]
Content(parts) == [has |-> TRUE, parts |-> parts]
NotJSON == [json |-> FALSE, null |-> FALSE, candidates |-> Missing]
JSONNull == [json |-> TRUE, null |-> TRUE, candidates |-> Missing]
Document(candidates) ==
  [json |-> TRUE, null |-> FALSE, candidates |-> candidates]
Reply(text) ==
  Document(Items(<<[content |-> Content(Items(<<[text |-> text]>>))]>>))

\* the environment of generateGeminiInsights before a call
NoRequest == [apiKey |-> FALSE, ok |-> FALSE, body |-> NotJSON]

\* most lines of a reply and most rows of a dataset summarized for the
\* request
MaxLines == 6
MaxGeminiRows == 1

RECURSIVE JoinLines(_)
JoinLines(lines) ==
  IF Len(lines) = 0 THEN <<>>
  ELSE IF Len(lines) = 1 THEN lines[1]
  ELSE lines[1] \o <<Newline>> \o JoinLines(Tail(lines))
ReplyLines == {<<>>, <<" ">>, <<"a">>}
ReplyTexts == {JoinLines(lines) : lines \in SeqsUpTo(ReplyLines, MaxLines)}
ResponseBodies ==
  {NotJSON, JSONNull, Document(Missing), Document(Items(<<>>)),
   Document(Items(<<[content |-> NoContent]>>)),
   Document(Items(<<[content |-> Content(Missing)]>>)),
   Document(Items(<<[content |-> Content(Items(<<>>))]>>)),
   Reply(Undefined), Reply(Num(1))}
  \cup {Reply(Str(text)) : text \in ReplyTexts}

GeminiRows ==
  {<<>>, <<Entry("y", Num(2))>>}
  \cup {<<Entry("x", x)>> \o y :
          x \in {Num(1), Str(<<"1", "a">>), Str(<<"a">>), Str(<<" ">>), Null},
          y \in {<<>>, <<Entry("y", Num(2))>>}}
GeminiDataSets ==
  {NoDataset} \cup {Dataset(rows) : rows \in SeqsUpTo(GeminiRows, MaxGeminiRows)}

(***************************************************************************)
(* App (App.tsx): the state of the component and its handlers              *)
(*                                                                         *)
(* app holds the state hooks data, selectedColumns, isLoading, insights    *)
(* and error, and with them the call of generateInsights that waits for    *)
(* analyzeData (pending), the dataset of the call that finished last       *)
(* (analyzed), the event that came last (last), the number of calls made   *)
(* (calls) and whether the key check of the mount effect has reported.     *)
(* The continuation of generateInsights is a microtask of a promise that   *)
(* is already resolved: it runs before the next event is handled.          *)
(***************************************************************************)
\* most calls of generateInsights in a behaviour
MaxCalls == 3

ErrorNone == [null |-> TRUE, message |-> ""]
ErrorOf(message) == [null |-> FALSE, message |-> message]
NoColumn == [has |-> FALSE, name |-> ""]
ColumnNamed(name) == [has |-> TRUE, name |-> name]

\* lines 163-169
fallbackInsights ==
  <<Insight("fallback", "seasonal trends", "", "", "", <<>>),
    Insight("fallback", "correlation", "", "", "", <<>>),
    Insight("fallback", "outliers", "", "", "", <<>>),
    Insight("fallback", "normalizing", "", "", "", <<>>),
    Insight("fallback", "distribution", "", "", "", <<>>)>>

\* lines 125-133: [firstColumn, numericColumn] of the first row; columns[0]
\* of a row without columns is undefined
selectedColumnsOf(row) ==
  LET columns == Keys(row)
      numeric == SelectSeq(columns, LAMBDA col : numberCoerces(Get(row, col)))
      firstColumn == IF columns = <<>> THEN NoColumn ELSE ColumnNamed(columns[1])
  IN <<firstColumn,
       IF numeric # <<>> THEN ColumnNamed(numeric[1]) ELSE firstColumn>>

\* the finally block kept out: isLoading stays as it is
generateInsightsEndedLoading(a, dataToAnalyze) ==
  [a EXCEPT !.pending = NoDataset, !.analyzed = Dataset(dataToAnalyze),
            !.last = "finished"]

\* lines 173-175, the finally block: the call is over
generateInsightsEnded(a, dataToAnalyze) ==
  [a EXCEPT !.isLoading = FALSE, !.pending = NoDataset,
            !.analyzed = Dataset(dataToAnalyze), !.last = "finished"]

\* lines 156-172, the catch block
generateInsightsFailed(a, dataToAnalyze) ==
  generateInsightsEnded(
    [a EXCEPT !.error = ErrorOf("Failed to generate insights"),
              !.insights = fallbackInsights],
    dataToAnalyze)

\* lines 139-148: generateInsights up to the await; an empty array throws
\* and the call is over at once
generateInsightsCalled(a, dataToAnalyze) ==
  IF Len(dataToAnalyze) = 0
  THEN generateInsightsFailed(
         [a EXCEPT !.isLoading = TRUE, !.error = ErrorNone,
                   !.calls = @ + 1],
         dataToAnalyze)
  ELSE [a EXCEPT !.isLoading = TRUE, !.error = ErrorNone, !.calls = @ + 1,
                 !.pending = Dataset(dataToAnalyze), !.last = "started"]

\* lines 148-175: generateInsights from the await on, evaluation being what
\* analyzeData settled with
generateInsightsResumed(a, evaluation) ==
  IF evaluation.threw \/ Len(evaluation.insights) = 0
  THEN generateInsightsFailed(a, a.pending.rows)
  ELSE generateInsightsEnded([a EXCEPT !.insights = evaluation.insights],
                             a.pending.rows)

\* the arrays handed to handleDataParsed
AppDataSets ==
  {<<>>, <<<<>>>>, Column(<<Num(1)>>), Column(<<Str(<<"a">>), Num(2)>>),
   Column(<<Num(1), Num(2), Num(3), Num(2), Num(1)>>),
   ScenarioRows(<<1, 2, 3, 4, 5>>),
   <<<<Entry("x", Str(<<>>)), Entry("y", Num(1))>>>>}

\* the state of App after mounting: lines 31-49
AppStart ==
  [data |-> <<>>, selectedColumns |-> <<>>, isLoading |-> FALSE,
   insights |-> <<>>, error |-> ErrorNone, pending |-> NoDataset,
   analyzed |-> NoDataset, last |-> "mounted", calls |-> 0,
   keyChecked |-> FALSE]

(***************************************************************************)
(* Specifications                                                          *)
(***************************************************************************)
NotCalled == [called |-> FALSE, threw |-> FALSE, insights |-> <<>>]

\* nothing was called yet, nothing is displayed and no request was made
Idle ==
  /\ pc = "start"
  /\ outcome = NotCalled
  /\ stats = NullStats
  /\ after = data
  /\ corrs = <<>>
  /\ trend = NullResult
  /\ pattern = NullResult
  /\ missingCounts = <<>>
  /\ net = NoRequest
  /\ app = AppStart

\* analyzeData applied to a dataset
Init ==
  /\ data \in {NoDataset} \cup {Dataset(rows) : rows \in DataSets}
  /\ key = ""
  /\ Idle

Analyze ==
  /\ pc = "start"
  /\ outcome' = [called |-> TRUE] @@ analyzeData(data)
  /\ after' = dataAfterAnalyze(data)
  /\ pc' = "done"
  /\ UNCHANGED <<data, key, stats, helperVars, net, app>>

Next == Analyze

Spec == Init /\ [][Next]_vars

\* calculateStats applied to a column
InitStats ==
  /\ data \in {Dataset(rows) : rows \in StatColumns}
  /\ key = "x"
  /\ Idle

CallCalculateStats ==
  /\ pc = "start"
  /\ stats' = calculateStats(data.rows, key)
  /\ after' = [data EXCEPT !.rows = calculateStatsArrays(data.rows, key).data]
  /\ pc' = "done"
  /\ UNCHANGED <<data, key, outcome, helperVars, net, app>>

NextStats == CallCalculateStats

SpecStats == InitStats /\ [][NextStats]_vars

\* calculateStats applied to a column of decimal strings, in binary64
InitFloat ==
  /\ data \in {Dataset(rows) : rows \in FloatColumns}
  /\ key = "x"
  /\ Idle

CallCalculateStatsFloat ==
  /\ pc = "start"
  /\ stats' = calculateStatsFloat(data.rows, key)
  /\ after' = data
  /\ pc' = "done"
  /\ UNCHANGED <<data, key, outcome, helperVars, net, app>>

NextFloat == CallCalculateStatsFloat

SpecFloat == InitFloat /\ [][NextFloat]_vars

\* findCorrelations applied to a dataset, in binary64
InitCorr ==
  /\ data \in {Dataset(rows) : rows \in CorrDataSets}
  /\ key = ""
  /\ Idle

CallFindCorrelations ==
  /\ pc = "start"
  /\ corrs' = findCorrelationsFloat(data.rows)
  /\ pc' = "done"
  /\ UNCHANGED <<data, key, outcome, stats, after, trend, pattern,
                 missingCounts, net, app>>

NextCorr == CallFindCorrelations

SpecCorr == InitCorr /\ [][NextCorr]_vars

\* datasets for the correlation insight: x counts the rows, y takes any of
\* three values in each row; or y takes any of two values and a third
\* column z rises in the last row only
MaxInsightRows == 4
insightRow(i, n, y, withZ) ==
  <<Entry("x", Num(i - 1)), Entry("y", Num(y))>>
  \o (IF withZ THEN <<Entry("z", Num(IF i = n THEN 1 ELSE 0))>> ELSE <<>>)
InsightDataSets ==
  {[i \in 1..Len(ys) |-> insightRow(i, Len(ys), ys[i], FALSE)] :
     ys \in UNION {[1..n -> 0..2] : n \in 3..MaxInsightRows}}
  \cup {[i \in 1..Len(ys) |-> insightRow(i, Len(ys), ys[i], TRUE)] :
          ys \in UNION {[1..n -> 0..1] : n \in 3..MaxInsightRows}}

\* analyzeData applied to a dataset, its coefficients in binary64; corrs
\* keeps the list findCorrelations returned to it
InitInsight ==
  /\ data \in {Dataset(rows) : rows \in InsightDataSets}
  /\ key = ""
  /\ Idle

AnalyzeCorrelations ==
  /\ pc = "start"
  /\ corrs' = findCorrelationsFloat(data.rows)
  /\ outcome' = [called |-> TRUE] @@ analyzeDataOfCorrelations(data, corrs')
  /\ after' = dataAfterAnalyze(data)
  /\ pc' = "done"
  /\ UNCHANGED <<data, key, stats, trend, pattern, missingCounts, net, app>>

NextInsight == AnalyzeCorrelations

SpecInsight == InitInsight /\ [][NextInsight]_vars

\* datasets for the outlier step: each of the columns x and y alternates
\* between 1 and 2 and ends with up to two cells holding 9, or holds words
\* only; y may be absent
MaxOutlierRows == 10
OutlierKinds == {"words", "level", "one", "two"}
spikedCell(i, n, kind) ==
  LET spikes == CASE kind = "one" -> 1 [] kind = "two" -> 2 [] OTHER -> 0
  IN IF kind = "words" THEN Str(<<"a">>)
     ELSE IF i > n - spikes THEN Num(9)
     ELSE Num(1 + (i % 2))
outlierRows(n, kx, ky) ==
  [i \in 1..n |->
     <<Entry("x", spikedCell(i, n, kx))>>
     \o (IF ky = "absent" THEN <<>>
         ELSE <<Entry("y", spikedCell(i, n, ky))>>)]
OutlierDataSets ==
  {outlierRows(n, kx, ky) :
     n \in 1..MaxOutlierRows, kx \in OutlierKinds,
     ky \in OutlierKinds \cup {"absent"}}

InitOutliers ==
  /\ data \in {Dataset(rows) : rows \in OutlierDataSets}
  /\ key = ""
  /\ Idle

NextOutliers == Analyze

SpecOutliers == InitOutliers /\ [][NextOutliers]_vars

\* detectSeasonality applied to a column: every sequence of MaxSeasonDeltas
\* rises, falls and repeats from 20 on, and shorter and longer columns of
\* repeating steps with at most one cell that is a word
MaxSeasonDeltas == 9
SeasonSteps == {-1, 0, 1}
walkCells(deltas) ==
  LET values == growingValues(20, deltas, Len(deltas) + 1)
  IN [i \in 1..Len(values) |-> Num(values[i])]
withWordAt(cells, w) ==
  [i \in 1..Len(cells) |-> IF i = w THEN Str(<<"a">>) ELSE cells[i]]
SeasonColumns ==
  {Column(walkCells(d)) : d \in [1..MaxSeasonDeltas -> SeasonSteps]}
  \cup {Column(withWordAt(walkCells(Cycle(base, n)), w)) :
          base \in SeqsUpTo(SeasonSteps, 2) \ {<<>>},
          n \in (MaxSeasonDeltas - 1)..(MaxSeasonDeltas + 3),
          w \in {0, 1, MaxSeasonDeltas}}

InitSeason ==
  /\ data \in {Dataset(rows) : rows \in SeasonColumns}
  /\ key = "x"
  /\ Idle

CallDetectSeasonalityAlone ==
  /\ pc = "start"
  /\ pattern' = detectSeasonality(data.rows, key)
  /\ pc' = "pattern"
  /\ UNCHANGED <<data, key, outcome, stats, after, corrs, trend,
                 missingCounts, net, app>>

NextSeason == CallDetectSeasonalityAlone

SpecSeason == InitSeason /\ [][NextSeason]_vars

\* the three helpers applied in turn to every filling of a short column
InitTrend ==
  /\ data \in {Dataset(rows) : rows \in TrendColumns}
  /\ key = "x"
  /\ Idle

\* calculateStats, detectTrends and detectSeasonality applied to a column,
\* in this order
InitSeries ==
  /\ data \in {Dataset(rows) : rows \in SeriesColumns}
  /\ key = "x"
  /\ Idle

CallDetectTrends ==
  /\ pc = "done"
  /\ trend' = detectTrends(data.rows, key)
  /\ pc' = "trends"
  /\ UNCHANGED <<data, key, outcome, stats, after, corrs, pattern,
                 missingCounts, net, app>>

CallDetectSeasonality ==
  /\ pc = "trends"
  /\ pattern' = detectSeasonality(data.rows, key)
  /\ pc' = "seasonality"
  /\ UNCHANGED <<data, key, outcome, stats, after, corrs, trend,
                 missingCounts, net, app>>

NextSeries ==
  \/ CallCalculateStats
  \/ CallDetectTrends
  \/ CallDetectSeasonality

SpecSeries == InitSeries /\ [][NextSeries]_vars

\* a dataset whose y is twice its growing x, handed to findCorrelations and
\* then detectTrends, or to analyzeData and then detectTrends
InitScenario ==
  /\ data \in {Dataset(rows) : rows \in ScenarioDataSets}
  /\ key = "x"
  /\ Idle

NextScenario ==
  \/ CallFindCorrelations
  \/ Analyze
  \/ CallDetectTrends

SpecScenario == InitScenario /\ [][NextScenario]_vars

\* generateGeminiInsights: the call, then what fetch and response.text()
\* come to
InitGemini ==
  /\ data \in GeminiDataSets
  /\ key = ""
  /\ pc = "start"
  /\ outcome = NotCalled
  /\ stats = NullStats
  /\ after = data
  /\ corrs = <<>>
  /\ trend = NullResult
  /\ pattern = NullResult
  /\ missingCounts = <<>>
  /\ net \in {[NoRequest EXCEPT !.apiKey = k] : k \in BOOLEAN}
  /\ app = AppStart

\* the promise of generateGeminiInsights settles with an evaluation
Settle(evaluation) ==
  /\ outcome' = [called |-> TRUE] @@ evaluation
  /\ pc' = "done"

\* lines 226-290: the call, up to await fetch(...)
CallGenerateGeminiInsights ==
  /\ pc = "start"
  /\ IF beforeRequest(data, net.apiKey).threw
     THEN Settle(outerTry(beforeRequest(data, net.apiKey)))
     ELSE pc' = "fetching" /\ outcome' = outcome
  /\ UNCHANGED <<data, key, stats, after, helperVars, net, app>>

\* fetch rejects (no network)
FetchRejects ==
  /\ pc = "fetching"
  /\ \E random \in randomChoices(data.rows) :
       Settle(outerTry(catchApiError(data.rows, random)))
  /\ UNCHANGED <<data, key, stats, after, helperVars, net, app>>

\* fetch resolves with a response, its status in the range 200-299 or not
FetchResolves ==
  /\ pc = "fetching"
  /\ \E ok \in BOOLEAN : net' = [net EXCEPT !.ok = ok]
  /\ pc' = "reading"
  /\ UNCHANGED <<data, key, outcome, stats, after, helperVars, app>>

\* response.text() rejects (the connection is lost)
TextRejects ==
  /\ pc = "reading"
  /\ \E random \in randomChoices(data.rows) :
       Settle(outerTry(catchApiError(data.rows, random)))
  /\ UNCHANGED <<data, key, stats, after, helperVars, net, app>>

\* response.text() resolves with the body: lines 307-333
TextResolves ==
  /\ pc = "reading"
  /\ \E body \in ResponseBodies, random \in randomChoices(data.rows) :
       /\ net' = [net EXCEPT !.body = body]
       /\ Settle(outerTry(innerTry(data.rows, net.ok, body, random)))
  /\ UNCHANGED <<data, key, stats, after, helperVars, app>>

NextGemini ==
  \/ CallGenerateGeminiInsights
  \/ FetchRejects
  \/ FetchResolves
  \/ TextRejects
  \/ TextResolves

SpecGemini == InitGemini /\ [][NextGemini]_vars

\* App: uploads, refresh clicks, the error closed, the key check
InitApp ==
  /\ data = NoDataset
  /\ key = ""
  /\ Idle

\* lines 121-136
HandleDataParsed ==
  /\ app.pending.null
  /\ app.calls < MaxCalls
  /\ \E parsedData \in AppDataSets :
       app' = generateInsightsCalled(
                [app EXCEPT !.data = parsedData,
                            !.selectedColumns =
                               IF Len(parsedData) > 0
                               THEN selectedColumnsOf(parsedData[1])
                               ELSE @],
                parsedData)
  /\ UNCHANGED <<data, key, pc, outcome, stats, after, helperVars, net>>

\* lines 179-183
HandleRefreshInsights ==
  /\ app.pending.null
  /\ app.calls < MaxCalls
  /\ app' = IF Len(app.data) > 0
            THEN generateInsightsCalled(app, app.data)
            ELSE app
  /\ UNCHANGED <<data, key, pc, outcome, stats, after, helperVars, net>>

\* the promise of analyzeData is settled and generateInsights goes on
ResumeGenerateInsights ==
  /\ ~app.pending.null
  /\ app' = generateInsightsResumed(app, analyzeData(app.pending))
  /\ UNCHANGED <<data, key, pc, outcome, stats, after, helperVars, net>>

\* lines 186-188
HandleCloseError ==
  /\ app.pending.null
  /\ app' = [app EXCEPT !.error = ErrorNone, !.last = "closed"]
  /\ UNCHANGED <<data, key, pc, outcome, stats, after, helperVars, net>>

\* lines 64-79 of the mount effect: the key check reports a missing or
\* invalid key
ApiKeyChecked ==
  /\ app.pending.null
  /\ ~app.keyChecked
  /\ app' = [app EXCEPT !.error = ErrorOf("API key"), !.keyChecked = TRUE]
  /\ UNCHANGED <<data, key, pc, outcome, stats, after, helperVars, net>>

NextApp ==
  \/ HandleDataParsed
  \/ HandleRefreshInsights
  \/ ResumeGenerateInsights
  \/ HandleCloseError
  \/ ApiKeyChecked

SpecApp == InitApp /\ [][NextApp]_vars

NextTrend ==
  \/ CallCalculateStats
  \/ CallDetectTrends
  \/ CallDetectSeasonality

SpecTrend == InitTrend /\ [][NextTrend]_vars

\* findMissingData applied to a dataset
InitMissing ==
  /\ data \in {Dataset(rows) : rows \in MissingDataSets}
  /\ key = ""
  /\ Idle

CallFindMissingData ==
  /\ pc = "start"
  /\ missingCounts' = findMissingData(data.rows)
  /\ pc' = "done"
  /\ UNCHANGED <<data, key, outcome, stats, after, corrs, trend, pattern,
                 net, app>>

NextMissing == CallFindMissingData

SpecMissing == InitMissing /\ [][NextMissing]_vars

(***************************************************************************)
(* Properties of analyzeData                                               *)
(***************************************************************************)
Returned == pc = "done" /\ outcome.called /\ ~outcome.threw
HasRows == ~data.null /\ Len(data.rows) >= 1
CategoryCount(insights, category) ==
  Cardinality({i \in 1..Len(insights) : insights[i].category = category})
Emitted(insights, category) == CategoryCount(insights, category) > 0
\* the place of a category in the order of the steps
Rank(category) ==
  CASE category = "extremes" -> 1
    [] category = "trend" -> 2
    [] category = "seasonality" -> 3
    [] category = "missing" -> 4
    [] category = "outliers" -> 5
    [] category = "correlation" -> 6
EarlierCategories == {"extremes", "trend", "seasonality", "missing", "outliers"}

\* C1: for every dataset, the list returned by analyzeData has at most 5
\* strings.
C1_AtMostFive == pc = "done" => Len(outcome.insights) <= 5

\* six insights were generated and five of them returned
C1_Witness ==
  /\ Returned
  /\ Len(generatedInsights(data.rows)) = 6
  /\ Len(outcome.insights) = 5

\* C2: for every dataset with at least one row and at least one column the
\* returned list is non-empty and holds exactly one missing-data insight,
\* whatever was generated before it.
C2_OneMissingInsight ==
  (pc = "done" /\ HasRows /\ Len(Keys(data.rows[1])) >= 1) =>
     /\ ~outcome.threw
     /\ Len(outcome.insights) >= 1
     /\ CategoryCount(outcome.insights, "missing") = 1

\* the missing-data insight is returned in fourth place, behind an extremes,
\* a trend and a seasonality insight, with the cap cutting the list
C2_Witness ==
  /\ Returned
  /\ Len(generatedInsights(data.rows)) = 6
  /\ outcome.insights[4].category = "missing"

\* C3: analyzeData called with a dataset without rows, or without a dataset,
\* raises an error and returns no list.
C3_EmptyRaises ==
  (pc = "done" /\ (data.null \/ Len(data.rows) = 0)) =>
     outcome.threw /\ outcome.insights = <<>>

\* the call was made with an empty array
C3_Witness ==
  pc = "done" /\ ~data.null /\ data.rows = <<>> /\ outcome.threw

\* C4: for a dataset with at least one row whose first row has no column,
\* analyzeData returns 0 strings or raises, and emits no missing-data
\* insight.
C4_NoColumnsNoInsight ==
  (pc = "done" /\ HasRows /\ Keys(data.rows[1]) = <<>>) =>
     /\ outcome.threw \/ Len(outcome.insights) = 0
     /\ ~Emitted(outcome.insights, "missing")

\* C5: the returned list is the first 5 elements of the generated sequence,
\* whose categories appear in the order of the steps, each at most once; a
\* generated correlation insight is missing from the result exactly when
\* all five earlier categories emitted an insight.
C5_FirstFiveInOrder ==
  Returned =>
    LET g == generatedInsights(data.rows)
        r == outcome.insights
    IN /\ Len(r) = (IF Len(g) < 5 THEN Len(g) ELSE 5)
       /\ \A i \in 1..Len(r) : r[i] = g[i]
       /\ \A i, j \in 1..Len(g) :
            i < j => Rank(g[i].category) < Rank(g[j].category)
       /\ Emitted(g, "correlation") =>
            (~Emitted(r, "correlation")
               <=> \A c \in EarlierCategories : Emitted(g, c))

\* a correlation insight was generated and the cap dropped it
C5_Witness ==
  /\ Returned
  /\ Emitted(generatedInsights(data.rows), "correlation")
  /\ ~Emitted(outcome.insights, "correlation")

\* C7: analyzeData and the helpers it calls leave the dataset as it was:
\* same rows, same order, same cells, the sort inside calculateStats
\* notwithstanding.
C7_DatasetUnchanged == pc = "done" => after = data

\* the call sorted a column whose values were not in ascending order
C7_Witness ==
  /\ Returned
  /\ numericValues(data.rows, "x") # SortAsc(numericValues(data.rows, "x"))
  /\ after = data

\* C14: no insight returned by analyzeData is built from NaN or from an
\* infinite number: none of the numbers it prints is a quotient with a
\* zero denominator.
C14_NoNaNInsight ==
  Returned =>
    \A i \in 1..Len(outcome.insights) :
       \A k \in 1..Len(outcome.insights[i].args) :
          outcome.insights[i].args[k].den # 0

\* the columns the core treats as numeric: those named by an extremes, trend,
\* seasonality, outlier or correlation insight
NamedNumeric(insights) ==
  {insights[i].col1 : i \in {j \in 1..Len(insights) :
                               insights[j].category # "missing"}}
  \cup {insights[i].col2 : i \in {j \in 1..Len(insights) :
                                    insights[j].category # "missing"}}

\* C15: a column is treated as numeric if and only if its value in the
\* first row is a number or a string that parses as one: a column whose
\* first value is blank while later rows hold numbers gets no extremes,
\* trend, outlier or correlation analysis.
C15_NumericByFirstRow ==
  (Returned /\ HasRows) =>
    \A col \in {Keys(data.rows[1])[i] : i \in 1..Len(Keys(data.rows[1]))} :
       /\ ~columnStatsOf(data.rows)[col].null
            <=> ~toNumber(Get(data.rows[1], col)).nan
       /\ toNumber(Get(data.rows[1], col)).nan
            => col \notin NamedNumeric(outcome.insights)

(***************************************************************************)
(* Properties of the helpers on one column                                 *)
(***************************************************************************)
\* the cell is a number, or a string that starts, after white space and a
\* sign, with a digit or with a decimal point and a digit
Parses(cell) ==
  \/ cell.t = "number"
  \/ /\ cell.t = "string"
     /\ LET t == SkipSpaces(cell.s)
            u == IF t # <<>> /\ t[1] \in {"-", "+"} THEN Tail(t) ELSE t
        IN /\ u # <<>>
           /\ \/ IsDigit(u[1])
              \/ u[1] = "." /\ Len(u) > 1 /\ IsDigit(u[2])

\* C17: for a dataset of one row whose column holds one numeric value v,
\* calculateStats returns count 1, min = max = mean = median = v, range 0,
\* stdDev 0, iqr 0 and no outlier, and detectTrends and detectSeasonality
\* return null; and calculateStats returns null exactly when no cell of
\* the column parses to a number.
C17_SingleRow ==
  pc = "seasonality" =>
    /\ stats.null
         <=> \A r \in 1..Len(data.rows) : ~Parses(Get(data.rows[r], key))
    /\ (Len(data.rows) = 1 /\ Parses(Get(data.rows[1], key))) =>
         /\ ~stats.null
         /\ stats.count = 1
         /\ stats.min = stats.max
         /\ Get(data.rows[1], key).t = "number"
              => stats.min = Get(data.rows[1], key).n
         /\ RatEQ(stats.mean, Rat(stats.min, 1))
         /\ RatEQ(stats.median, Rat(stats.min, 1))
         /\ stats.range = 0
         /\ stats.variance.num = 0
         /\ stats.stdDev.sqrtOf.num = 0
         /\ stats.iqr = 0
         /\ stats.outliers = <<>>
         /\ ~stats.hasOutliers
         /\ trend.null
         /\ pattern.null

\* the three helpers were called on a single row holding the string "-1"
C17_Witness ==
  /\ pc = "seasonality"
  /\ data.rows = Column(<<Str(<<"-", "1">>)>>)
  /\ stats.count = 1
  /\ stats.min = 0 - 1
  /\ trend.null
  /\ pattern.null

(***************************************************************************)
(* Properties of findMissingData                                           *)
(***************************************************************************)
\* the row has no cell in the column, or null, or a string of no character
\* or of spaces only
IsBlank(row, col) ==
  \/ \A i \in 1..Len(row) : row[i].k # col
  \/ \E i \in 1..Len(row) :
       /\ row[i].k = col
       /\ \/ row[i].v = Null
          \/ /\ row[i].v.t = "string"
             /\ \A c \in 1..Len(row[i].v.s) : row[i].v.s[c] = " "
BlankCount(rows, col) ==
  Cardinality({r \in 1..Len(rows) : IsBlank(rows[r], col)})
FirstRowColumns(rows) ==
  IF rows = <<>> THEN {} ELSE {rows[1][i].k : i \in 1..Len(rows[1])}

\* C16: findMissingData maps each column of the first row to the number of
\* rows whose cell in it is absent, null, the empty string or a string
\* that trims to empty; a column is in the result iff that number is > 0,
\* and every count is between 1 and the number of rows.
C16_MissingCounts ==
  pc = "done" =>
    /\ \A i \in 1..Len(missingCounts) :
         /\ missingCounts[i].col \in FirstRowColumns(data.rows)
         /\ missingCounts[i].missing
              = BlankCount(data.rows, missingCounts[i].col)
         /\ missingCounts[i].missing >= 1
         /\ missingCounts[i].missing <= Len(data.rows)
    /\ \A i, j \in 1..Len(missingCounts) :
         i # j => missingCounts[i].col # missingCounts[j].col
    /\ \A col \in FirstRowColumns(data.rows) :
         (\E i \in 1..Len(missingCounts) : missingCounts[i].col = col)
           <=> BlankCount(data.rows, col) > 0

\* every row holds a blank in x, one of them a space, and the result maps
\* x to the row count and leaves out y, which has a value in every row
C16_Witness ==
  /\ pc = "done"
  /\ Len(data.rows) = 3
  /\ \E r \in 1..3 : Get(data.rows[r], "x") = Str(<<" ">>)
  /\ \E r \in 1..3 : Get(data.rows[r], "x") = Str(<<>>)
  /\ FirstRowColumns(data.rows) = {"x", "y"}
  /\ missingCounts = <<[col |-> "x", missing |-> 3]>>

(***************************************************************************)
(* Properties of findCorrelations                                          *)
(***************************************************************************)
FloatOne == FromRatio(1, 1)
\* the dataset with the columns of every row in the opposite order
Swapped(rows) ==
  [i \in 1..Len(rows) |->
     [k \in 1..Len(rows[i]) |-> rows[i][Len(rows[i]) + 1 - k]]]
\* the coefficients of a result by unordered pair of columns
ByPair(pairs) ==
  {[cols |-> {pairs[i].col1, pairs[i].col2}, c |-> pairs[i].coefficient] :
     i \in 1..Len(pairs)}
\* the rows in which a column holds a number
numericRowsOf(rows, col) ==
  {r \in 1..Len(rows) : ~toNumber(Get(rows[r], col)).nan}
\* every number of the column is the same
ZeroVariance(rows, col) ==
  \A i, j \in numericRowsOf(rows, col) :
     toFloat(toNumber(Get(rows[i], col))) = toFloat(toNumber(Get(rows[j], col)))
\* both columns hold numbers only and their coefficient is 1/2 or -1/2
ExactlyHalf(rows, col1, col2) ==
  /\ \A r \in 1..Len(rows) :
       Get(rows[r], col1).t = "number" /\ Get(rows[r], col2).t = "number"
  /\ LET c == pearson(numericValues(rows, col1), numericValues(rows, col2))
     IN c.den # 0 /\ 4 * c.num * c.num = c.den

\* C11: every coefficient returned by findCorrelations lies in [-1, 1],
\* and the coefficient of a pair of columns is the same when the two
\* columns are given in the opposite order.
C11_CoefficientInRangeSymmetric ==
  pc = "done" =>
    /\ \A i \in 1..Len(corrs) :
         /\ ~corrs[i].coefficient.inf
         /\ ~FloatLT(FloatOne, corrs[i].coefficient.f)
    /\ ByPair(findCorrelationsFloat(Swapped(data.rows))) = ByPair(corrs)

\* C12: the result of findCorrelations holds each unordered pair of
\* columns at most once, holds only pairs whose coefficient is a number
\* above 0.5 in size, holds no pair with a column of equal values and no
\* pair whose coefficient is exactly 0.5 in size, and is in non-increasing
\* order of size.
C12_KeptPairsSorted ==
  pc = "done" =>
    /\ \A i, j \in 1..Len(corrs) :
         i < j => {corrs[i].col1, corrs[i].col2}
                    # {corrs[j].col1, corrs[j].col2}
    /\ \A i \in 1..Len(corrs) :
         /\ ~corrs[i].coefficient.nan
         /\ coefFloatAbove(corrs[i].coefficient, 1, 2)
         /\ ~ZeroVariance(data.rows, corrs[i].col1)
         /\ ~ZeroVariance(data.rows, corrs[i].col2)
         /\ ~ExactlyHalf(data.rows, corrs[i].col1, corrs[i].col2)
    /\ \A i, j \in 1..Len(corrs) :
         i < j => ~coefFloatAbsGT(corrs[j].coefficient, corrs[i].coefficient)

\* C13: the two value sequences a reported coefficient was computed from
\* come from the same rows: the rows in which the first column holds a
\* number are those in which the second does.
C13_PairedByRow ==
  pc = "done" =>
    \A i \in 1..Len(corrs) :
       numericRowsOf(data.rows, corrs[i].col1)
         = numericRowsOf(data.rows, corrs[i].col2)

(***************************************************************************)
(* Properties of calculateStats                                            *)
(***************************************************************************)
StatsReturned == pc = "done" /\ ~stats.null
\* the numeric values of the column, in row order
Values == numericValues(data.rows, key)
Occurrences(s, v) == Cardinality({i \in 1..Len(s) : s[i] = v})
\* s is t put in ascending order
IsSortOf(s, t) ==
  /\ Len(s) = Len(t)
  /\ \A i \in 1..(Len(s) - 1) : s[i] <= s[i + 1]
  /\ \A i \in 1..Len(t) : Occurrences(s, t[i]) = Occurrences(t, t[i])

\* C8: for every column with a numeric value, min <= q1 <= median <= q3 <=
\* max, where q1 and q3 are the elements of the sorted values at
\* floor(n * 0.25) and floor(n * 0.75) and median is the middle element or
\* the mean of the two middle elements.
C8_QuartileOrder ==
  StatsReturned =>
    LET n == stats.count
        sorted == CHOOSE s \in [1..Len(Values) -> {Values[i] : i \in 1..Len(Values)}] :
                    IsSortOf(s, Values)
    IN /\ n = Len(Values)
       /\ stats.min <= stats.q1
       /\ RatLE(Rat(stats.q1, 1), stats.median)
       /\ RatLE(stats.median, Rat(stats.q3, 1))
       /\ stats.q3 <= stats.max
       /\ stats.q1 = sorted[(n \div 4) + 1]
       /\ stats.q3 = sorted[((3 * n) \div 4) + 1]
       /\ stats.median = IF n % 2 = 1 THEN Rat(sorted[(n \div 2) + 1], 1)
                         ELSE Rat(sorted[n \div 2] + sorted[(n \div 2) + 1], 2)

\* the five statistics are all different, for values given out of order
C8_Witness ==
  /\ StatsReturned
  /\ Values # SortAsc(Values)
  /\ stats.min < stats.q1
  /\ RatLT(Rat(stats.q1, 1), stats.median)
  /\ RatLT(stats.median, Rat(stats.q3, 1))
  /\ stats.q3 < stats.max

\* C9: for every column with a numeric value, stdDev >= 0, and stdDev = 0 if
\* and only if all numeric values of the column are equal.  (stdDev is zero
\* or positive by construction here; the formula states the equivalence.)
C9_StdDevZeroIffEqual ==
  StatsReturned =>
    LET values == floatValues(data.rows, key)
    IN stats.stdDevIsZero
         <=> \A i, j \in 1..Len(values) : values[i] = values[j]

\* v lies outside [q1 - 1.5 * iqr, q3 + 1.5 * iqr]
IsOutlier(v, q1, q3) ==
  \/ 2 * v < 2 * q1 - 3 * (q3 - q1)
  \/ 2 * v > 2 * q3 + 3 * (q3 - q1)

\* C10: the outliers are exactly the numeric values outside
\* [q1 - 1.5 * iqr, q3 + 1.5 * iqr], each as often as it occurs in the
\* column; hasOutliers is true iff there is one; for 10, 20, 30, 40, 1000
\* the outliers are [1000].
C10_OutliersExact ==
  StatsReturned =>
    /\ \A i \in 1..Len(Values) :
         Occurrences(stats.outliers, Values[i]) =
           IF IsOutlier(Values[i], stats.q1, stats.q3)
           THEN Occurrences(Values, Values[i]) ELSE 0
    /\ \A i \in 1..Len(stats.outliers) :
         Occurrences(Values, stats.outliers[i]) > 0
    /\ stats.hasOutliers <=> stats.outliers # <<>>
    /\ data.rows = Column(AgeColumn) => stats.outliers = <<1000>>

\* an outlier value that occurs twice is reported twice
C10_Witness ==
  /\ StatsReturned
  /\ \E i \in 1..Len(stats.outliers) :
       Occurrences(stats.outliers, stats.outliers[i]) = 2

(***************************************************************************)
(* Properties of the scenario y = 2 * x                                    *)
(***************************************************************************)
\* 2^-52, the distance from 1 to the next number above it
Epsilon == [FloatOne EXCEPT !.e = @ - 52]
\* a number at most 2^-52 away from 1
NearOne(f) ==
  ~f.zero /\
  ~FloatLT(Epsilon, IF FloatLT(f, FloatOne) THEN FloatSubAbs(FloatOne, f)
                    ELSE FloatSubAbs(f, FloatOne))
\* x grows from row to row, is positive, and y is twice x
IsScenario ==
  /\ ~data.null /\ Len(data.rows) >= 5
  /\ \A i \in 1..Len(data.rows) :
       /\ Keys(data.rows[i]) = <<"x", "y">>
       /\ Get(data.rows[i], "x").t = "number"
       /\ Get(data.rows[i], "x").n > 0
       /\ Get(data.rows[i], "y") = Num(2 * Get(data.rows[i], "x").n)
       /\ i > 1 => Get(data.rows[i], "x").n > Get(data.rows[i - 1], "x").n
TrendCalled == pc = "trends"
CorrelationsCalled == pc \in {"done", "trends"} /\ ~outcome.called
AnalyzeCalled == pc \in {"done", "trends"} /\ outcome.called
UpwardAllTheWay ==
  /\ ~trend.null
  /\ trend.direction = "upward"
  /\ trend.consistency.num = 100 * trend.consistency.den
  /\ trend.consistency.den > 0
OnlyPairXY ==
  /\ Len(corrs) = 1
  /\ corrs[1].col1 = "x" /\ corrs[1].col2 = "y"
  /\ ~corrs[1].coefficient.nan /\ ~corrs[1].coefficient.inf
  /\ ~corrs[1].coefficient.neg
VeryStrongPositive(insights) ==
  \E i \in 1..Len(insights) :
     /\ insights[i].category = "correlation"
     /\ insights[i].variant = "positive"
     /\ insights[i].note = "very strong"
     /\ insights[i].col1 = "x" /\ insights[i].col2 = "y"

\* C18, as amended: for every dataset of n >= 5 rows whose two columns are
\* a growing positive x and y = 2 * x, detectTrends on x returns upward
\* with consistency 100 and findCorrelations returns the pair (x, y) alone,
\* with a positive coefficient at most 2^-52 away from 1; the list returned
\* by analyzeData holds a very strong positive correlation insight for
\* (x, y) when n <= 9 and no correlation insight when n >= 10, where the
\* seasonality insight takes the fifth place.
C18_ScenarioAmended ==
  IsScenario =>
    /\ TrendCalled => UpwardAllTheWay
    /\ CorrelationsCalled =>
         OnlyPairXY /\ NearOne(corrs[1].coefficient.f)
    /\ AnalyzeCalled =>
         /\ ~outcome.threw
         /\ Len(data.rows) <= 9 => VeryStrongPositive(outcome.insights)
         /\ Len(data.rows) >= 10 => ~Emitted(outcome.insights, "correlation")

\* findCorrelations and detectTrends were called on x = 1..5, y = 2 * x: the
\* coefficient is below 1
C18_Witness ==
  /\ IsScenario
  /\ TrendCalled /\ CorrelationsCalled
  /\ Len(data.rows) = 5
  /\ \A i \in 1..5 : Get(data.rows[i], "x").n = i
  /\ UpwardAllTheWay
  /\ OnlyPairXY
  /\ FloatLT(corrs[1].coefficient.f, FloatOne)

\* C18 as stated: the coefficient is 1 and the returned list holds the
\* correlation insight, for every n >= 5
C18_ScenarioAsStated ==
  IsScenario =>
    /\ TrendCalled => UpwardAllTheWay
    /\ CorrelationsCalled =>
         OnlyPairXY /\ corrs[1].coefficient.f = FloatOne
    /\ AnalyzeCalled =>
         ~outcome.threw /\ VeryStrongPositive(outcome.insights)

(***************************************************************************)
(* Properties of generateGeminiInsights                                    *)
(***************************************************************************)
GeminiSettled == pc = "done" /\ outcome.called
\* the reply was read and is a document with a text of lines
ReplyRead ==
  /\ GeminiSettled /\ net.ok /\ net.body.json /\ ~net.body.null
  /\ net.body.candidates.has
  /\ net.body.candidates.items # <<>>
  /\ net.body.candidates.items[1].content.has
  /\ net.body.candidates.items[1].content.parts.has
  /\ net.body.candidates.items[1].content.parts.items # <<>>
  /\ net.body.candidates.items[1].content.parts.items[1].text.t = "string"
ReplyText == net.body.candidates.items[1].content.parts.items[1].text.s
\* the lines of a text that hold a character other than a space
WrittenLines(text) ==
  Cardinality({i \in 1..Len(text) :
     /\ text[i] \notin {Newline, " "}
     /\ \A j \in 1..(i - 1) :
          (\A k \in j..(i - 1) : text[k] # Newline)
            => text[j] \in {Newline, " "}})

\* C19: on every path (no API key, no dataset, fetch or the body read
\* failing, a body that is not JSON, a status that is not OK, a reply of an
\* unexpected shape, a reply with a text) the promise of
\* generateGeminiInsights is not rejected, and it resolves to a list of at
\* most 5 strings.
C19_GeminiContract ==
  /\ ~outcome.threw
  /\ GeminiSettled =>
       /\ Len(outcome.insights) <= 5
       /\ \A i \in 1..Len(outcome.insights) : outcome.insights[i].t = "string"

\* a reply of six written lines was read and five of them returned
C19_Witness ==
  /\ ReplyRead
  /\ WrittenLines(ReplyText) = 6
  /\ Len(outcome.insights) = 5
  /\ \A i \in 1..5 : outcome.insights[i].id = "line"

(***************************************************************************)
(* Properties of App                                                       *)
(***************************************************************************)
\* a call of generateInsights has finished and nothing was handled since
JustFinished == app.last = "finished" /\ app.pending.null
\* what analyzeData settles with for the dataset of that call
Analyzed == analyzeData(app.analyzed)

\* C20: after any sequence of uploads and refresh clicks, when a call of
\* generateInsights has finished isLoading is false and the insights shown
\* are not empty: they are the list analyzeData returned for the dataset of
\* the call, or, when analyzeData raised or returned an empty list, the 5
\* fallback strings with an error message that is not null.
C20_AfterGenerateInsights ==
  JustFinished =>
    /\ ~app.isLoading
    /\ app.insights # <<>>
    /\ IF Analyzed.threw \/ Analyzed.insights = <<>>
       THEN app.insights = fallbackInsights /\ ~app.error.null
       ELSE app.insights = Analyzed.insights

\* the third call has finished, for the dataset x = 1..5, y = 2 * x, and
\* the five insights analyzeData returned for it are shown
C20_Witness ==
  /\ JustFinished
  /\ app.calls = 3
  /\ app.data = ScenarioRows(<<1, 2, 3, 4, 5>>)
  /\ ~Analyzed.threw
  /\ Len(app.insights) = 5
  /\ app.insights = Analyzed.insights
  /\ app.insights # fallbackInsights
  /\ ~app.isLoading

(***************************************************************************)
(* Properties of detectTrends                                              *)
(***************************************************************************)
TrendReturned == pc \in {"trends", "seasonality"}
\* the parsed numbers of the column, in the order of the rows
Parsed == numericValues(data.rows, key)
\* the pairs of consecutive parsed numbers
UpsOf(values) ==
  Cardinality({i \in 2..Len(values) : values[i] > values[i - 1]})
DownsOf(values) ==
  Cardinality({i \in 2..Len(values) : values[i] < values[i - 1]})
Ups == UpsOf(Parsed)
Downs == DownsOf(Parsed)
\* (count / total) * 100 > 60 as the code computes it, in binary64, for
\* every count of changes a column can have
PercentAboveSixtyTable ==
  [total \in 1..MaxTrendRows |->
     [count \in 0..total |->
        FloatLT(FromRatio(60, 1),
                FloatMul(FromRatio(count, total), FromRatio(100, 1)))]]
PercentAboveSixty(count, total) == PercentAboveSixtyTable[total][count]

\* C21: detectTrends returns null for fewer than 5 rows, for fewer than 5
\* parsed numbers and when no pair of consecutive numbers differs; else
\* it returns upward iff increases / totalChanges * 100 > 60, else
\* downward iff decreases / totalChanges * 100 > 60, else fluctuating, so
\* that exactly 60% is fluctuating and one direction only is returned.
TrendClassified(parsed, ups, downs) ==
  IF Len(data.rows) < 5 \/ Len(parsed) < 5 \/ ups + downs = 0
  THEN trend.null
  ELSE /\ ~trend.null
       /\ trend.direction \in {"upward", "downward", "fluctuating"}
       /\ trend.direction = "upward" <=> 100 * ups > 60 * (ups + downs)
       /\ trend.direction = "downward"
            <=> /\ 100 * ups <= 60 * (ups + downs)
                /\ 100 * downs > 60 * (ups + downs)
       /\ PercentAboveSixty(ups, ups + downs)
            <=> 100 * ups > 60 * (ups + downs)
       /\ PercentAboveSixty(downs, ups + downs)
            <=> 100 * downs > 60 * (ups + downs)
C21_TrendClassification ==
  TrendReturned => TrendClassified(Parsed, Ups, Downs)

\* three increases and two decreases, exactly 60%: fluctuating
C21_Witness ==
  /\ TrendReturned
  /\ Len(Parsed) = 6
  /\ Ups = 3 /\ Downs = 2
  /\ ~trend.null
  /\ trend.direction = "fluctuating"

\* C22: whenever detectTrends returns upward, more than 60% of all the
\* consecutive deltas of the parsed numbers, zero deltas included, are
\* strictly increasing; whenever it returns downward, more than 60% of them
\* are strictly decreasing.
C22_MajorityOfAllDeltas ==
  (TrendReturned /\ ~trend.null) =>
    /\ trend.direction = "upward"
         => 100 * Ups > 60 * (Len(Parsed) - 1)
    /\ trend.direction = "downward"
         => 100 * Downs > 60 * (Len(Parsed) - 1)

\* C30: whenever detectTrends returns upward for a column of positive
\* values, the last parsed value is at least the first and the reported rate
\* is not negative; whenever it returns downward, the last value is at most
\* the first and the reported rate is not negative.
C30_RateAgreesWithDirection ==
  (TrendReturned /\ ~trend.null /\ \A i \in 1..Len(Parsed) : Parsed[i] > 0) =>
    /\ trend.direction = "upward"
         => /\ Parsed[Len(Parsed)] >= Parsed[1]
            /\ trend.rate.num * trend.rate.den >= 0
    /\ trend.direction = "downward"
         => /\ Parsed[Len(Parsed)] <= Parsed[1]
            /\ trend.rate.num * trend.rate.den >= 0

(***************************************************************************)
(* Properties of the mode                                                  *)
(***************************************************************************)
\* how many times v occurs among the values
FrequencyOf(v, values) == Cardinality({i \in 1..Len(values) : values[i] = v})
\* the values that occur most often
MostFrequent(values) ==
  {values[i] : i \in {j \in 1..Len(values) :
     \A k \in 1..Len(values) :
        FrequencyOf(values[k], values) <= FrequencyOf(values[j], values)}}
AllDistinct(values) ==
  \A i, j \in 1..Len(values) : values[i] = values[j] => i = j
SmallestOf(set) == CHOOSE v \in set : \A w \in set : v <= w
ModeIsSmallestMostFrequent(values) ==
  /\ stats.mode = SmallestOf(MostFrequent(values))
  /\ AllDistinct(values) => stats.mode = stats.min

\* C25: the mode returned by calculateStats is the smallest of the column's
\* numeric values that occur with the maximal frequency; when all values
\* are distinct it is the minimum.
C25_ModeIsSmallestMostFrequent ==
  (pc = "done" /\ ~stats.null) => ModeIsSmallestMostFrequent(Parsed)

\* two values tie for the maximal frequency and the larger one comes first
\* in the column
C25_Witness ==
  /\ pc = "done" /\ ~stats.null
  /\ Cardinality(MostFrequent(Parsed)) >= 2
  /\ FrequencyOf(Parsed[1], Parsed) >= 2
  /\ Parsed[1] \in MostFrequent(Parsed)
  /\ stats.mode < Parsed[1]

(***************************************************************************)
(* Properties of detectSeasonality                                         *)
(***************************************************************************)
SeasonReturned == pc = "pattern"
Periods == 2..4
\* whether the i-th pair of consecutive values rises, falls or repeats
DeltaSign(values, i) ==
  IF values[i + 1] > values[i] THEN 1
  ELSE IF values[i + 1] < values[i] THEN -1
  ELSE 0
\* the positions at which p consecutive pairs move as the p pairs after them
RepeatsAt(values, p) ==
  Cardinality({i \in 1..(Len(values) - 2 * p) :
     \A j \in 0..(p - 1) :
        DeltaSign(values, i + j) = DeltaSign(values, i + p + j)})
\* floor(directions.length / p) - 1
DenominatorAt(values, p) == ((Len(values) - 1) \div p) - 1
\* the confidences of the three periods as pairs of numerator, denominator
ConfidencesOf(values) ==
  [p \in Periods |-> <<RepeatsAt(values, p), DenominatorAt(values, p)>>]
\* confidence a >= confidence b, the denominators being positive
ConfAtLeast(a, b) == a[1] * b[2] >= b[1] * a[2]
\* the smallest period whose confidence is the highest
BestPeriod(conf) ==
  CHOOSE p \in Periods :
    /\ \A q \in Periods : ConfAtLeast(conf[p], conf[q])
    /\ \A q \in Periods : q < p => ~ConfAtLeast(conf[q], conf[p])
PassesLengthChecks == Len(data.rows) >= 10 /\ Len(Parsed) >= 10
SeasonalityAsSpecified(conf, p) ==
  IF 10 * conf[p][1] > 3 * conf[p][2]
  THEN /\ ~pattern.null
       /\ pattern.patternLength = p
       /\ pattern.confidence.num * conf[p][2]
            = conf[p][1] * pattern.confidence.den
  ELSE pattern.null

\* C23: detectSeasonality returns null for fewer than 10 rows or fewer than
\* 10 parsed numbers; otherwise it returns a result iff the highest
\* confidence over the periods 2, 3, 4 is above 0.3, and then patternLength
\* is the smallest period attaining that confidence and confidence is that
\* period's confidence.
C23_BestPeriod ==
  SeasonReturned =>
    IF ~PassesLengthChecks THEN pattern.null
    ELSE SeasonalityAsSpecified(ConfidencesOf(Parsed),
                                BestPeriod(ConfidencesOf(Parsed)))

\* two periods tie for the highest confidence and the smaller is returned
C23_Witness ==
  /\ SeasonReturned
  /\ ~pattern.null
  /\ \E q \in Periods :
       /\ q > pattern.patternLength
       /\ ConfAtLeast(ConfidencesOf(Parsed)[q],
                      ConfidencesOf(Parsed)[pattern.patternLength])

\* C24: for every period 2..4 that is not skipped the confidence is the
\* number of repeating positions divided by floor(directions.length / p) - 1
\* and this denominator is positive, for every input that passes the
\* length checks.
C24_DenominatorPositive ==
  (SeasonReturned /\ PassesLengthChecks) =>
    /\ \A p \in Periods :
         Len(directionsOf(Parsed)) >= 2 * p =>
           /\ patternOccurrencesOf(directionsOf(Parsed), p) - 1 > 0
           /\ patternOccurrencesOf(directionsOf(Parsed), p) - 1
                = DenominatorAt(Parsed, p)
    /\ ~pattern.null =>
         /\ pattern.confidence.den > 0
         /\ pattern.confidence.den
              = DenominatorAt(Parsed, pattern.patternLength)
         /\ pattern.confidence.num
              = RepeatsAt(Parsed, pattern.patternLength)

\* ten values whose best period is 4: the denominator is 1, the smallest
\* one a division uses
C24_Witness ==
  /\ SeasonReturned
  /\ Len(Parsed) = 10
  /\ ~pattern.null
  /\ pattern.patternLength = 4
  /\ pattern.confidence.den = 1

\* C29: every confidence returned by detectSeasonality is above 0.3 and at
\* most 1.
C29_ConfidenceAtMostOne ==
  (SeasonReturned /\ ~pattern.null) =>
    /\ 10 * pattern.confidence.num > 3 * pattern.confidence.den
    /\ pattern.confidence.num <= pattern.confidence.den

(***************************************************************************)
(* Properties of the correlation insight                                   *)
(***************************************************************************)
\* the insights of step 5 that report a pair
CorrelationReports ==
  {i \in 1..Len(outcome.insights) :
     /\ outcome.insights[i].category = "correlation"
     /\ outcome.insights[i].variant # "none"}
\* Math.abs(c) > p / 10 for a coefficient in binary64
AbsAboveTenths(c, p) == c.inf \/ FloatLT(FromRatio(p, 10), c.f)
LabelAsSpecified(insight, c) ==
  /\ insight.note = "very strong" <=> AbsAboveTenths(c, 9)
  /\ insight.note = "strong"
       <=> AbsAboveTenths(c, 7) /\ ~AbsAboveTenths(c, 9)
  /\ insight.note = "moderate"
       <=> AbsAboveTenths(c, 5) /\ ~AbsAboveTenths(c, 7)
  /\ insight.variant = "positive" <=> (~c.neg /\ AbsAboveTenths(c, 0))
  /\ insight.variant \in {"positive", "negative"}
  /\ insight.note # "weak"

\* C26: the correlation insight reports the first, strongest pair of
\* findCorrelations, labelled very strong iff |r| > 0.9, strong iff
\* 0.7 < |r| <= 0.9, moderate iff 0.5 < |r| <= 0.7, and positive iff r > 0;
\* the label weak is never emitted.
C26_CorrelationLabel ==
  (pc = "done" /\ outcome.called) =>
    /\ (Len(corrs) > 0 /\ Len(outcome.insights) < InsightCap)
         => CorrelationReports # {}
    /\ \A i \in CorrelationReports :
         /\ Len(corrs) > 0
         /\ outcome.insights[i].col1 = corrs[1].col1
         /\ outcome.insights[i].col2 = corrs[1].col2
         /\ \A j \in 1..Len(corrs) :
              ~coefFloatAbsGT(corrs[j].coefficient, corrs[1].coefficient)
         /\ LabelAsSpecified(outcome.insights[i], corrs[1].coefficient)

\* several pairs were kept and the strongest one is reported as strong
C26_Witness ==
  /\ pc = "done" /\ outcome.called
  /\ Len(corrs) >= 2
  /\ coefFloatAbsGT(corrs[1].coefficient, corrs[2].coefficient)
  /\ \E i \in CorrelationReports : outcome.insights[i].note = "strong"

(***************************************************************************)
(* Properties of the outlier step                                          *)
(***************************************************************************)
\* the columns with at least one numeric value, in the order of the keys of
\* the first row
NumericColumnsOfData ==
  SelectSeq(Keys(data.rows[1]),
            LAMBDA col : Len(numericValues(data.rows, col)) > 0)
OutlierCount(col) == Len(calculateStats(data.rows, col).outliers)
OutlierReports ==
  {i \in 1..Len(outcome.insights) :
     outcome.insights[i].category = "outliers"}
\* the earliest of the columns with the most outliers
MostOutliers(cols) ==
  cols[CHOOSE i \in 1..Len(cols) :
         /\ \A j \in 1..Len(cols) :
              OutlierCount(cols[j]) <= OutlierCount(cols[i])
         /\ \A j \in 1..(i - 1) :
              OutlierCount(cols[j]) < OutlierCount(cols[i])]
OutlierStepAsSpecified(cols) ==
  IF cols = <<>> THEN OutlierReports = {}
  ELSE /\ Cardinality(OutlierReports) = 1
       /\ \A i \in OutlierReports :
            IF OutlierCount(MostOutliers(cols)) > 0
            THEN /\ outcome.insights[i].variant = "detected"
                 /\ outcome.insights[i].col1 = MostOutliers(cols)
                 /\ outcome.insights[i].args[1].num
                      = OutlierCount(MostOutliers(cols))
                         * outcome.insights[i].args[1].den
            ELSE outcome.insights[i].variant = "none"

\* C27: with at least one numeric column the list returned by analyzeData
\* contains exactly one insight of the outlier step, whatever the cap
\* drops: the report for the numeric column with the most outliers, the
\* earliest one on ties, when some column has outliers, and the no-outliers
\* insight otherwise; with no numeric column it contains none.
C27_OneOutlierInsight ==
  (pc = "done" /\ outcome.called /\ ~outcome.threw) =>
    OutlierStepAsSpecified(NumericColumnsOfData)

\* four insights precede the outlier report, which is the fifth and last,
\* and two columns have the same number of outliers
C27_Witness ==
  /\ pc = "done" /\ outcome.called /\ ~outcome.threw
  /\ Len(outcome.insights) = InsightCap
  /\ outcome.insights[InsightCap].category = "outliers"
  /\ outcome.insights[InsightCap].variant = "detected"
  /\ Len(NumericColumnsOfData) = 2
  /\ OutlierCount("x") = OutlierCount("y")

(***************************************************************************)
(* Properties of the pairs findCorrelations considers                      *)
(***************************************************************************)
HasPair(col1, col2) ==
  \E i \in 1..Len(corrs) : corrs[i].col1 = col1 /\ corrs[i].col2 = col2
\* the numbers of a column are number cells, so that they are integers
IntegerColumn(col) ==
  \A r \in numericRowsOf(data.rows, col) : Get(data.rows[r], col).t = "number"
\* the rows in which both columns hold a number
RowsOfBoth(col1, col2) ==
  SelectSeq(data.rows,
            LAMBDA row : ~toNumber(Get(row, col1)).nan
                         /\ ~toNumber(Get(row, col2)).nan)
\* the exact coefficient of two integer sequences is 1 or -1
PerfectlyCorrelated(values1, values2) ==
  /\ Len(values1) > 1
  /\ LET c == pearson(values1, values2)
     IN c.den # 0 /\ c.num * c.num = c.den
\* the exact coefficient of two integer sequences is at least 0.6 in size
ClearlyCorrelated(values1, values2) ==
  LET c == pearson(values1, values2)
  IN c.den # 0 /\ 100 * c.num * c.num >= 36 * c.den
PairsAsSpecified(cols) ==
  /\ \A i \in 1..Len(corrs) :
       /\ Len(numericValues(data.rows, corrs[i].col1))
            = Len(numericValues(data.rows, corrs[i].col2))
       /\ Len(numericValues(data.rows, corrs[i].col1)) > 1
  /\ \A i, j \in 1..Len(cols) :
       (/\ i < j
        /\ IntegerColumn(cols[i]) /\ IntegerColumn(cols[j])
        /\ Len(numericValues(data.rows, cols[i])) > 1
        /\ Len(numericValues(data.rows, cols[i]))
             = Len(numericValues(data.rows, cols[j]))
        /\ ClearlyCorrelated(numericValues(data.rows, cols[i]),
                             numericValues(data.rows, cols[j])))
         => HasPair(cols[i], cols[j])

\* C28: findCorrelations returns no pair for two columns whose sequences of
\* numeric values have different lengths or at most one element, even when
\* the rows where both are numeric are perfectly correlated; every column
\* with a numeric value is a candidate, so that two such columns of equal
\* length above 1 and a clear correlation do get a pair.
C28_PairsNeedEqualLengths ==
  pc = "done" => PairsAsSpecified(columnsOf(data.rows))

\* x has a word where y has a number, the rows in which both are numbers
\* are perfectly correlated, and no pair is returned
C28_Witness ==
  /\ pc = "done"
  /\ columnsOf(data.rows) = <<"x", "y">>
  /\ IntegerColumn("x") /\ IntegerColumn("y")
  /\ Len(numericValues(data.rows, "x")) # Len(numericValues(data.rows, "y"))
  /\ PerfectlyCorrelated(numericValues(RowsOfBoth("x", "y"), "x"),
                         numericValues(RowsOfBoth("x", "y"), "y"))
  /\ corrs = <<>>

====
